---- MODULE Spec2Model ----
(***************************************************************************)
(* A model of the table engine of src/server.js: one no-limit Texas        *)
(* Hold'em table driven by socket events (join, setStartingStack,          *)
(* startGame, action, disconnect) and by the next-hand timer.              *)
(*                                                                         *)
(* Every action below is one whole event handler, run to completion, as    *)
(* the single-threaded event loop runs it.  Handlers are written as        *)
(* functions from the table state (a record with the fields of `state`     *)
(* in server.js, plus the handler's outputs) to the table state, composed  *)
(* in the order of the statements of the source.                           *)
(***************************************************************************)
EXTENDS Integers, Sequences, FiniteSets, TLC

(***************************************************************************)
(* Program constants.                                                      *)
(***************************************************************************)
SMALL_BLIND == 10
BIG_BLIND == 20
MAX_LOGS == 40
FULL_DECK_SIZE == 52
MIN_STACK == 50
MAX_STACK == 1000000
MIN_NAME_LEN == 2
MAX_NAME_LEN == 20
\* JavaScript null, for the id fields and the timer handle.
NoId == 0

(***************************************************************************)
(* Bounds of the model.                                                    *)
(***************************************************************************)
\* Sockets that are connected when the model starts; ids are 1..NumSockets.
NumSockets == 3
\* Hands dealt in one behaviour (over all games).
MaxHands == 1
\* Orders shuffleDeck may leave the deck in.
NumShuffles == 1
\* Sockets that disconnect in one behaviour.
MaxDisconnects == 1

(***************************************************************************)
(* Cards.  A card code is rank character followed by suit character; it is *)
(* kept as the pair of the two characters, so card[1] is JavaScript's      *)
(* card[0] and card[2] is card[1].                                         *)
(***************************************************************************)
\* A function on 1..n as the tuple of its values.
TupleOf(f) == f \o <<>>

SUITS == <<"S", "H", "D", "C">>
RANKS == <<"2", "3", "4", "5", "6", "7", "8", "9", "T", "J", "Q", "K", "A">>

createDeck ==
    TupleOf([i \in 1..(Len(SUITS) * Len(RANKS)) |->
        << RANKS[((i - 1) % Len(RANKS)) + 1], SUITS[((i - 1) \div Len(RANKS)) + 1] >>])

rankValue(rank) ==
    CASE rank = "2" -> 2 [] rank = "3" -> 3 [] rank = "4" -> 4 [] rank = "5" -> 5
      [] rank = "6" -> 6 [] rank = "7" -> 7 [] rank = "8" -> 8 [] rank = "9" -> 9
      [] rank = "T" -> 10 [] rank = "J" -> 11 [] rank = "Q" -> 12 [] rank = "K" -> 13
      [] OTHER -> 14

(***************************************************************************)
(* Sequence helpers standing for the array methods the source uses.        *)
(***************************************************************************)
RECURSIVE SumSeq(_)
SumSeq(s) == IF s = <<>> THEN 0 ELSE Head(s) + SumSeq(Tail(s))

\* s.filter(keep), keep given as the set of kept elements' indexes.
FilterSeq(s, keepIdx) ==
    TupleOf([k \in 1..Cardinality(keepIdx \cap (1..Len(s))) |->
        s[CHOOSE i \in keepIdx \cap (1..Len(s)) :
             Cardinality({j \in keepIdx \cap (1..Len(s)) : j <= i}) = k]])

Max2(a, b) == IF a >= b THEN a ELSE b
Min2(a, b) == IF a <= b THEN a ELSE b

\* ranks.sort((a, b) => b - a): the k-th element is the one with k - 1
\* elements before it, those greater and those equal that come earlier.
SortDesc(s) ==
    TupleOf([k \in 1..Len(s) |->
        s[CHOOSE i \in 1..Len(s) :
             Cardinality({j \in 1..Len(s) : s[j] > s[i] \/ (s[j] = s[i] /\ j < i)}) = k - 1]])

\* [...new Set(s)]: first occurrences, in order.
Unique(s) == FilterSeq(s, {i \in 1..Len(s) : \A j \in 1..(i - 1) : s[j] # s[i]})

(***************************************************************************)
(* The hand evaluator.                                                     *)
(***************************************************************************)
NoScore == [category |-> -1, ranks |-> <<>>]

\* A slip of getStraightHigh: the wheel is scored by its ace.
getStraightHighByTopCard(sortedRanksDesc) ==
    LET unique == Unique(sortedRanksDesc)
        wheel == <<14, 5, 4, 3, 2>>
    IN IF Len(unique) # 5 THEN 0
       ELSE IF unique[1] - unique[5] = 4 THEN unique[1]
       ELSE IF \A index \in 1..5 : unique[index] = wheel[index] THEN unique[1] ELSE 0

getStraightHigh(sortedRanksDesc) ==
    LET unique == Unique(sortedRanksDesc)
        wheel == <<14, 5, 4, 3, 2>>
    IN IF Len(unique) # 5 THEN 0
       ELSE IF unique[1] - unique[5] = 4 THEN unique[1]
       ELSE IF \A index \in 1..5 : unique[index] = wheel[index] THEN 5 ELSE 0

\* The groups of equal ranks, sorted by count descending, then rank descending.
RECURSIVE SortGroups(_)
SortGroups(gs) ==
    IF gs = {} THEN <<>>
    ELSE LET first == CHOOSE g \in gs :
                 \A h \in gs : g.count > h.count \/ (g.count = h.count /\ g.rank >= h.rank)
         IN <<first>> \o SortGroups(gs \ {first})

rankGroups(ranks) ==
    SortGroups({ [rank |-> r, count |-> Cardinality({i \in 1..Len(ranks) : ranks[i] = r})] :
                 r \in {ranks[i] : i \in 1..Len(ranks)} })

\* groups.filter(count === 1).map(rank).sort(desc)
Kickers(groups) ==
    SortDesc(TupleOf([i \in 1..Cardinality({j \in 1..Len(groups) : groups[j].count = 1}) |->
        FilterSeq(groups, {j \in 1..Len(groups) : groups[j].count = 1})[i].rank]))

evaluateFiveCardHand(cards) ==
    LET ranks == SortDesc(TupleOf([i \in 1..Len(cards) |-> rankValue(cards[i][1])]))
        suits == TupleOf([i \in 1..Len(cards) |-> cards[i][2]])
        isFlush == \A i \in 1..Len(suits) : suits[i] = suits[1]
        straightHigh == getStraightHigh(ranks)
        groups == rankGroups(ranks)
    IN IF isFlush /\ straightHigh > 0 THEN [category |-> 8, ranks |-> <<straightHigh>>]
       ELSE IF groups[1].count = 4
            THEN [category |-> 7, ranks |-> <<groups[1].rank, groups[2].rank>>]
       ELSE IF groups[1].count = 3 /\ groups[2].count = 2
            THEN [category |-> 6, ranks |-> <<groups[1].rank, groups[2].rank>>]
       ELSE IF isFlush THEN [category |-> 5, ranks |-> ranks]
       ELSE IF straightHigh > 0 THEN [category |-> 4, ranks |-> <<straightHigh>>]
       ELSE IF groups[1].count = 3
            THEN [category |-> 3, ranks |-> <<groups[1].rank>> \o Kickers(groups)]
       ELSE IF groups[1].count = 2 /\ groups[2].count = 2
            THEN [category |-> 2,
                  ranks |-> << Max2(groups[1].rank, groups[2].rank),
                               Min2(groups[1].rank, groups[2].rank),
                               groups[3].rank >>]
       ELSE IF groups[1].count = 2
            THEN [category |-> 1, ranks |-> <<groups[1].rank>> \o Kickers(groups)]
       ELSE [category |-> 0, ranks |-> ranks]

RECURSIVE compareRanks(_, _, _, _)
compareRanks(left, right, i, maxLength) ==
    IF i > maxLength THEN 0
    ELSE LET l == IF i <= Len(left) THEN left[i] ELSE 0
             r == IF i <= Len(right) THEN right[i] ELSE 0
         IN IF l # r THEN l - r ELSE compareRanks(left, right, i + 1, maxLength)

\* A slip of compareScores: the ranks are compared first.
compareScoresByRanks(left, right) ==
    IF compareRanks(left.ranks, right.ranks, 1, Max2(Len(left.ranks), Len(right.ranks))) # 0
    THEN compareRanks(left.ranks, right.ranks, 1, Max2(Len(left.ranks), Len(right.ranks)))
    ELSE left.category - right.category

compareScores(left, right) ==
    IF left.category # right.category THEN left.category - right.category
    ELSE compareRanks(left.ranks, right.ranks, 1, Max2(Len(left.ranks), Len(right.ranks)))

\* Lexicographic order on index selections, the order pickCards visits them in.
RECURSIVE LexLess(_, _)
LexLess(a, b) ==
    IF a = <<>> THEN b # <<>>
    ELSE IF b = <<>> THEN FALSE
    ELSE Head(a) < Head(b) \/ (Head(a) = Head(b) /\ LexLess(Tail(a), Tail(b)))

RECURSIVE LexSorted(_)
LexSorted(sels) ==
    IF sels = {} THEN <<>>
    ELSE LET first == CHOOSE a \in sels : \A b \in sels : a = b \/ LexLess(a, b)
         IN <<first>> \o LexSorted(sels \ {first})

\* The selections of five card indexes out of n that pickCards(0) reaches, in
\* the order it reaches them.
Selections ==
    [n \in 5..7 |->
        LexSorted({sel \in [1..5 -> 1..n] : \A i \in 1..4 : sel[i] < sel[i + 1]})] @@ <<>>

\* The scores of the selections, in the order pickCards scores them.
scoresOfSelections(cards) ==
    TupleOf([k \in 1..Len(Selections[Len(cards)]) |->
        evaluateFiveCardHand(
            TupleOf([i \in 1..5 |-> cards[Selections[Len(cards)][k][i]]]))])

\* bestScore at the end: it is replaced by a score that compares greater
\* only, so it is the first of the scores that no score compares greater to.
bestOfScores(scores) ==
    scores[CHOOSE k \in 1..Len(scores) :
              /\ \A j \in 1..Len(scores) : compareScores(scores[j], scores[k]) <= 0
              /\ \A j \in 1..(k - 1) : compareScores(scores[j], scores[k]) < 0]

evaluateBestKnownHand(cards) == bestOfScores(scoresOfSelections(cards))

(***************************************************************************)
(* The deck.  shuffleDeck's Math.random is a choice among NumShuffles      *)
(* permutations of the fresh deck.  A permutation is given by the cards    *)
(* that come off the top first (DrawPrefix), followed by the other cards   *)
(* in createDeck's order; the top of the deck is its last element.         *)
(*   prefix 1: the first seat is weakest and the last two seats tie;       *)
(*   prefix 2: the hands get strictly weaker from the first seat on;       *)
(*   prefix 3: the board makes every hand for 2, 3 and 4 players (a tie);  *)
(*   prefix 4: the hands get strictly stronger from the first seat on;     *)
(*   prefix 5: heads-up, seat 1 holds A 2 and seat 2 holds 6 2 on the      *)
(*             board 3 4 5 7 K.                                            *)
(***************************************************************************)
DrawPrefix ==
    << << <<"2","D">>, <<"Q","H">>, <<"Q","D">>, <<"5","C">>, <<"6","C">>, <<"5","D">>, <<"3","C">>, <<"3","D">>,
          <<"K","C">>, <<"K","H">>, <<"8","S">>, <<"3","H">>, <<"6","S">>, <<"8","H">>, <<"9","D">>, <<"9","S">> >>,
       << <<"A","D">>, <<"9","D">>, <<"9","C">>, <<"7","D">>, <<"4","H">>, <<"Q","S">>, <<"2","S">>, <<"4","S">>,
          <<"5","S">>, <<"T","D">>, <<"3","S">>, <<"A","H">>, <<"K","S">>, <<"T","C">>, <<"Q","C">>, <<"6","C">> >>,
       << <<"2","H">>, <<"3","D">>, <<"4","C">>, <<"5","H">>, <<"7","D">>, <<"A","H">>, <<"A","D">>, <<"A","S">>,
          <<"K","S">>, <<"Q","S">>, <<"9","S">>, <<"J","S">>, <<"6","C">>, <<"T","S">>, <<"6","D">>, <<"8","S">> >>,
       << <<"3","D">>, <<"K","S">>, <<"6","D">>, <<"8","D">>, <<"2","H">>, <<"A","S">>, <<"4","C">>, <<"4","H">>,
          <<"J","H">>, <<"Q","D">>, <<"8","S">>, <<"5","H">>, <<"6","H">>, <<"6","C">>, <<"9","S">>, <<"Q","C">> >>,
       << <<"A","S">>, <<"6","H">>, <<"2","D">>, <<"2","C">>, <<"9","C">>, <<"3","H">>, <<"4","S">>, <<"5","D">>,
          <<"9","D">>, <<"7","C">>, <<"T","D">>, <<"K","H">>, <<"J","S">>, <<"J","H">>, <<"8","C">>, <<"8","D">> >> >>

Reverse(s) == TupleOf([i \in 1..Len(s) |-> s[Len(s) + 1 - i]])

\* The permutation of `deck` that draws DrawPrefix[d] first (every d beyond
\* the listed prefixes leaves the deck as it is).
shuffleDeck(freshDeck, d) ==
    IF d > Len(DrawPrefix) THEN freshDeck
    ELSE Reverse(DrawPrefix[d]
                 \o SelectSeq(freshDeck,
                       LAMBDA c : \A i \in 1..Len(DrawPrefix[d]) : DrawPrefix[d][i] # c))

\* The decks: those a shuffle of the exploration leaves and those listed.
NumDecks == Max2(NumShuffles, Len(DrawPrefix))

Shuffled == TupleOf([d \in 1..NumDecks |-> shuffleDeck(createDeck, d)])

\* The seven cards (hole cards, then board) of seat k of n dealt from a deck.
DealtHand(cards, n, k) ==
    LET draw(j) == cards[Len(cards) - (j - 1)]
    IN << draw(k), draw(n + k), draw(2 * n + 2), draw(2 * n + 3), draw(2 * n + 4),
          draw(2 * n + 6), draw(2 * n + 8) >>

\* evaluateBestKnownHand of the hands the shuffles deal, computed once.
BestHandOfDealt ==
    [cards \in {DealtHand(Shuffled[d], n, k) :
                   d \in 1..NumDecks, n \in 2..NumSockets, k \in 1..NumSockets} |->
        evaluateBestKnownHand(cards)] @@ <<>>

\* NoScore stands for the exception thrown on a wrong number of cards.
evaluateBestHand(cards) ==
    IF Len(cards) # 7 THEN NoScore
    ELSE IF cards \in DOMAIN BestHandOfDealt THEN BestHandOfDealt[cards]
    ELSE evaluateBestKnownHand(cards)

\* TRUE when assertDeckShape returns, FALSE when it throws.
assertDeckShape(freshDeck) ==
    /\ Len(freshDeck) = FULL_DECK_SIZE
    /\ Cardinality({freshDeck[i] : i \in 1..Len(freshDeck)}) = FULL_DECK_SIZE
    /\ \A i \in 1..Len(freshDeck) :
          /\ \E r \in 1..Len(RANKS) : freshDeck[i][1] = RANKS[r]
          /\ \E u \in 1..Len(SUITS) : freshDeck[i][2] = SUITS[u]

\* The two calls of assertDeckShape in startNextHand, for every shuffle.
DeckShapeOk ==
    TupleOf([d \in 1..NumDecks |->
        assertDeckShape(createDeck) /\ assertDeckShape(Shuffled[d])])

(***************************************************************************)
(* The table state.  `T` below is the record of all of it, which the       *)
(* handlers transform; the variables are its fields.                       *)
(*   players .. nextHandTimer : the fields of `state` in server.js         *)
(*                 (nextHandTimer: whether the field holds a timer handle) *)
(*   timerArmed : whether the timeout that state.nextHandTimer refers to   *)
(*                is still to fire                                         *)
(*   timers     : the number of timeouts set and neither fired nor cleared *)
(*   sockets    : the ids of the connected sockets (io.sockets.sockets)    *)
(*   error      : the errorMessage the last event sent to its sender       *)
(*   crashed    : an exception left a handler (the process is gone)        *)
(*   audit      : history: what the last showdown collected and paid, and  *)
(*                for every seat what it had contributed, its score        *)
(*                (NotInMap for a seat out of the hand) and its payout     *)
(*   handsDealt : history: hands dealt so far, which bounds the model      *)
(*   delivered  : history: for every socket the state message it was sent  *)
(*                last (on connection, or by the last emitStateToAll)      *)
(*   hands, verdict : the two hands handed to the evaluator on its own and *)
(*                what it has made of them (used by SpecHands only)        *)
(* Four more fields of the record belong to the event being handled: the   *)
(* call it ends with (call, lastActorId), the shuffle it deals (d),        *)
(* logged, the number of entries it has appended to state.logs, and sent,  *)
(* the state messages it has sent, in order: each is the projection that   *)
(* every connected socket was sent.                                        *)
(***************************************************************************)
VARIABLES players, startingStack, gameStarted, handInProgress, handNumber, phase,
          deck, burnCards, seenCards, communityCards, pot, currentBet,
          lastRaiseSize, currentTurnId, dealerId, smallBlindId, bigBlindId,
          lastShowdown, nextHandTimer, timerArmed, sockets, error, crashed,
          audit, handsDealt, delivered, timers, hands, verdict

vars == << players, startingStack, gameStarted, handInProgress, handNumber, phase,
           deck, burnCards, seenCards, communityCards, pot, currentBet,
           lastRaiseSize, currentTurnId, dealerId, smallBlindId, bigBlindId,
           lastShowdown, nextHandTimer, timerArmed, sockets, error, crashed,
           audit, handsDealt, delivered, timers, hands, verdict >>

T == [ players |-> players, startingStack |-> startingStack,
       gameStarted |-> gameStarted, handInProgress |-> handInProgress,
       handNumber |-> handNumber, phase |-> phase, deck |-> deck,
       burnCards |-> burnCards, seenCards |-> seenCards,
       communityCards |-> communityCards, pot |-> pot, currentBet |-> currentBet,
       lastRaiseSize |-> lastRaiseSize, currentTurnId |-> currentTurnId,
       dealerId |-> dealerId, smallBlindId |-> smallBlindId,
       bigBlindId |-> bigBlindId, lastShowdown |-> lastShowdown,
       nextHandTimer |-> nextHandTimer, timerArmed |-> timerArmed, timers |-> timers,
       sockets |-> sockets, error |-> error,
       crashed |-> crashed, audit |-> audit,
       handsDealt |-> handsDealt,
       call |-> "return", lastActorId |-> NoId, d |-> 1, logged |-> 0,
       sent |-> <<>> ]

\* The handler's result becomes the next state.
Becomes(st) ==
    /\ players' = st.players
    /\ startingStack' = st.startingStack
    /\ gameStarted' = st.gameStarted
    /\ handInProgress' = st.handInProgress
    /\ handNumber' = st.handNumber
    /\ phase' = st.phase
    /\ deck' = st.deck
    /\ burnCards' = st.burnCards
    /\ seenCards' = st.seenCards
    /\ communityCards' = st.communityCards
    /\ pot' = st.pot
    /\ currentBet' = st.currentBet
    /\ lastRaiseSize' = st.lastRaiseSize
    /\ currentTurnId' = st.currentTurnId
    /\ dealerId' = st.dealerId
    /\ smallBlindId' = st.smallBlindId
    /\ bigBlindId' = st.bigBlindId
    /\ lastShowdown' = st.lastShowdown
    /\ nextHandTimer' = st.nextHandTimer
    /\ timerArmed' = st.timerArmed
    /\ timers' = st.timers
    /\ sockets' = st.sockets
    /\ error' = st.error
    /\ crashed' = st.crashed
    /\ audit' = st.audit
    /\ handsDealt' = st.handsDealt
    /\ delivered' = IF st.sent = <<>> THEN delivered ELSE st.sent[Len(st.sent)]
    /\ UNCHANGED << hands, verdict >>

NoError == "none"
NoVerdict == [left |-> NoScore, right |-> NoScore, order |-> 0]
NoShowdown == [type |-> "none", communityCards |-> <<>>, hands |-> <<>>, payouts |-> <<>>]
NoAudit ==
    [contributed |-> 0, paid |-> 0, contributions |-> <<>>, scores |-> <<>>,
     payouts |-> <<>>, dealer |-> 0, gone |-> {}]

createPlayer(st, id, name) ==
    [ id |-> id, name |-> name, chips |-> st.startingStack, isAdmin |-> FALSE,
      disconnected |-> FALSE, inHand |-> FALSE, folded |-> FALSE, allIn |-> FALSE,
      holeCards |-> <<>>, betThisRound |-> 0, totalContribution |-> 0,
      acted |-> FALSE ]

\* Indexes 1..Len(s) as a sequence, and the indexes of the elements in a set.
Indexes(s) == TupleOf([i \in 1..Len(s) |-> i])
Where(st, keep(_)) ==
    FilterSeq(Indexes(st.players), {i \in 1..Len(st.players) : keep(st.players[i])})

\* state.players.find(id): the index of the player, 0 for null.
findPlayer(st, playerId) ==
    IF \E i \in 1..Len(st.players) : st.players[i].id = playerId
    THEN CHOOSE i \in 1..Len(st.players) :
            /\ st.players[i].id = playerId
            /\ \A j \in 1..(i - 1) : st.players[j].id # playerId
    ELSE 0

\* A slip of sendError: the refusal is written to the log as well.
sendErrorLogged(st, message) == [st EXCEPT !.error = message, !.logged = @ + 1]

sendError(st, message) == [st EXCEPT !.error = message]

\* state.logs.push(...): the entry's text and the slice to MAX_LOGS entries
\* are left out, the entry is counted.
addLog(st) == [st EXCEPT !.logged = @ + 1]

(***************************************************************************)
(* buildStateFor: what a state message tells the viewer.  handInsight and  *)
(* availableActions are left out: they are descriptions and amounts        *)
(* computed from the viewer's own cards and the board; of logs, the number *)
(* of entries the event has appended is kept.                              *)
(***************************************************************************)
shownPlayer(st, player) ==
    [id |-> player.id, name |-> player.name, chips |-> player.chips,
     isAdmin |-> player.isAdmin, inHand |-> player.inHand, folded |-> player.folded,
     allIn |-> player.allIn, betThisRound |-> player.betThisRound,
     totalContribution |-> player.totalContribution,
     isTurn |-> player.id = st.currentTurnId]

buildStateFor(st, viewerId) ==
    [joined |-> findPlayer(st, viewerId) # 0,
     youId |-> viewerId,
     gameStarted |-> st.gameStarted,
     handInProgress |-> st.handInProgress,
     phase |-> st.phase,
     pot |-> st.pot,
     currentBet |-> st.currentBet,
     deckRemaining |-> Len(st.deck),
     burnCount |-> Len(st.burnCards),
     dealtCount |-> Cardinality(st.seenCards),
     dealerId |-> st.dealerId,
     currentTurnId |-> st.currentTurnId,
     communityCards |-> st.communityCards,
     yourCards |-> IF findPlayer(st, viewerId) # 0
                      /\ st.players[findPlayer(st, viewerId)].inHand
                   THEN st.players[findPlayer(st, viewerId)].holeCards
                   ELSE <<>>,
     players |-> LET shown == FilterSeq(Indexes(st.players),
                                 {i \in 1..Len(st.players) : ~st.players[i].disconnected})
                 IN  TupleOf([k \in 1..Len(shown) |-> shownPlayer(st, st.players[shown[k]])]),
     logs |-> st.logged,
     lastShowdown |-> st.lastShowdown]

\* for (const [socketId, socket] of io.sockets.sockets) socket.emit("state",
\* buildStateFor(socketId)): the table is left as it is.
emitStateToAll(st) ==
    [st EXCEPT !.sent = Append(@, [socketId \in st.sockets |-> buildStateFor(st, socketId)])]

\* players.map(f): the tuple of f(player) over the seats.
MapPlayers(st, f(_)) == TupleOf([i \in 1..Len(st.players) |-> f(st.players[i])])

getConnectedPlayers(st) == Where(st, LAMBDA p : ~p.disconnected)

\* The loop of assignAdminIfNeeded: adminId is the id of the one admin left,
\* NoId for none.
SetAdmin(st, adminId) ==
    [st EXCEPT !.players = MapPlayers(st,
        LAMBDA p : IF p.id # adminId THEN [p EXCEPT !.isAdmin = FALSE]
                   ELSE [p EXCEPT !.isAdmin = TRUE])]

KeepAdmin(st, adminId) ==
    [st EXCEPT !.players = MapPlayers(st,
        LAMBDA p : IF p.id # adminId THEN [p EXCEPT !.isAdmin = FALSE] ELSE p)]

FirstWhere(st, keep(_)) ==
    IF \E i \in 1..Len(st.players) : keep(st.players[i])
    THEN CHOOSE i \in 1..Len(st.players) :
            /\ keep(st.players[i])
            /\ \A j \in 1..(i - 1) : ~keep(st.players[j])
    ELSE 0

\* A slip of assignAdminIfNeeded: the first seat is made admin, connected or
\* not.
assignAdminToFirstSeat(st) ==
    IF FirstWhere(st, LAMBDA p : ~p.disconnected /\ p.isAdmin) # 0
    THEN KeepAdmin(st, st.players[FirstWhere(st, LAMBDA p : ~p.disconnected /\ p.isAdmin)].id)
    ELSE IF FirstWhere(st, LAMBDA p : ~p.disconnected) # 0
    THEN addLog(SetAdmin(st, st.players[1].id))
    ELSE SetAdmin(st, NoId)

assignAdminIfNeeded(st) ==
    IF FirstWhere(st, LAMBDA p : ~p.disconnected /\ p.isAdmin) # 0
    THEN KeepAdmin(st, st.players[FirstWhere(st, LAMBDA p : ~p.disconnected /\ p.isAdmin)].id)
    ELSE IF FirstWhere(st, LAMBDA p : ~p.disconnected) # 0
    THEN addLog(SetAdmin(st, st.players[FirstWhere(st, LAMBDA p : ~p.disconnected)].id))
    ELSE SetAdmin(st, NoId)

cleanupDisconnectedPlayers(st) ==
    [st EXCEPT !.players = FilterSeq(st.players,
                              {i \in 1..Len(st.players) : ~st.players[i].disconnected})]

\* A timeout fires: all of them wait NEXT_HAND_DELAY_MS, so the one set first
\* fires first, and the one state.nextHandTimer refers to is the last set.
\* The callback leaves state.nextHandTimer as it is.
timerFires(st) ==
    [st EXCEPT !.timers = @ - 1, !.timerArmed = @ /\ st.timers > 1]

\* A slip of cancelNextHandTimer: the field is cleared, the timeout is not.
cancelNextHandTimerFieldOnly(st) ==
    IF st.nextHandTimer THEN [st EXCEPT !.nextHandTimer = FALSE] ELSE st

\* clearTimeout of the handle in state.nextHandTimer takes its timeout away
\* if that is still to fire, and does nothing to a timeout that has fired.
cancelNextHandTimer(st) ==
    IF st.nextHandTimer
    THEN [st EXCEPT !.timers = IF st.timerArmed THEN @ - 1 ELSE @,
                    !.timerArmed = FALSE, !.nextHandTimer = FALSE]
    ELSE st

\* setTimeout sets one more timeout, and its handle replaces the field.
queueNextHand(st) ==
    [cancelNextHandTimer(st) EXCEPT !.nextHandTimer = TRUE, !.timerArmed = TRUE,
                                    !.timers = @ + 1]

resetPlayerHandState(player) ==
    [player EXCEPT !.inHand = FALSE, !.folded = FALSE, !.allIn = FALSE,
                   !.holeCards = <<>>, !.betThisRound = 0,
                   !.totalContribution = 0, !.acted = FALSE]

\* A slip of commitBet: the amount is not added to totalContribution.
commitBetOffTheBooks(st, i, amount) ==
    IF amount <= 0 THEN st
    ELSE [st EXCEPT !.players[i].chips = @ - amount,
                    !.players[i].betThisRound = @ + amount,
                    !.pot = @ + amount]

commitBet(st, i, amount) ==
    IF amount <= 0 THEN st
    ELSE [st EXCEPT !.players[i].chips = @ - amount,
                    !.players[i].betThisRound = @ + amount,
                    !.players[i].totalContribution = @ + amount,
                    !.pot = @ + amount]

\* A slip of getMinRaiseTo: the big blind added instead of the last raise.
getMinRaiseToByBigBlind(st) ==
    IF st.currentBet = 0 THEN BIG_BLIND ELSE st.currentBet + BIG_BLIND

getMinRaiseTo(st) ==
    IF st.currentBet = 0 THEN BIG_BLIND ELSE st.currentBet + st.lastRaiseSize

isPlayerActionable(player) == player.inHand /\ ~player.folded /\ ~player.allIn

countRemainingInHand(st) ==
    Cardinality({i \in 1..Len(st.players) : st.players[i].inHand /\ ~st.players[i].folded})

\* A slip of isBettingRoundComplete: the bets are not compared.
isBettingRoundCompleteOnceActed(st) ==
    \A i \in 1..Len(st.players) :
        isPlayerActionable(st.players[i]) => st.players[i].acted

isBettingRoundComplete(st) ==
    \A i \in 1..Len(st.players) :
        isPlayerActionable(st.players[i]) =>
            /\ st.players[i].acted
            /\ st.players[i].betThisRound = st.currentBet

\* A slip of getRingOrder: the ring starts with the player it is counted from.
getRingOrderFromPlayer(st, fromPlayerId) ==
    TupleOf([i \in 1..Len(st.players) |->
        (((IF fromPlayerId # NoId THEN findPlayer(st, fromPlayerId) ELSE 0) - 2 + i)
            % Len(st.players)) + 1])

\* The indexes of the seats in ring order, starting after fromPlayerId and
\* ending with it (from the first seat when fromPlayerId is null or unknown).
getRingOrder(st, fromPlayerId) ==
    TupleOf([i \in 1..Len(st.players) |->
        (((IF fromPlayerId # NoId THEN findPlayer(st, fromPlayerId) ELSE 0) - 1 + i)
            % Len(st.players)) + 1])

\* The first index of ordered whose player satisfies the predicate, 0 for none.
FirstInOrder(st, ordered, predicate(_)) ==
    IF \A k \in 1..Len(ordered) : ~predicate(st.players[ordered[k]]) THEN 0
    ELSE ordered[CHOOSE k \in 1..Len(ordered) :
                    /\ predicate(st.players[ordered[k]])
                    /\ \A h \in 1..(k - 1) : ~predicate(st.players[ordered[h]])]

\* The index of the first player after fromPlayerId that satisfies the
\* predicate, 0 for null.
getNextPlayer(st, fromPlayerId, predicate(_)) ==
    FirstInOrder(st, getRingOrder(st, fromPlayerId), predicate)

\* The id of the player at index i, NoId for null.
\* The card drawCard(st) returns.
topCard(st) == IF st.deck = <<>> THEN <<"?", "?">> ELSE st.deck[Len(st.deck)]

\* A slip of drawCard: the card drawn is not recorded as seen.
drawCardUnrecorded(st) ==
    IF st.deck = <<>> \/ topCard(st) \in st.seenCards THEN [st EXCEPT !.crashed = TRUE]
    ELSE [st EXCEPT !.deck = SubSeq(st.deck, 1, Len(st.deck) - 1)]

\* state.deck.pop() with the two checks (an empty deck, a card seen before).
drawCard(st) ==
    IF st.deck = <<>> \/ topCard(st) \in st.seenCards THEN [st EXCEPT !.crashed = TRUE]
    ELSE [st EXCEPT !.deck = SubSeq(st.deck, 1, Len(st.deck) - 1),
                    !.seenCards = @ \cup {topCard(st)}]

burnTopCard(st) == addLog([drawCard(st) EXCEPT !.burnCards = Append(@, topCard(st))])

(***************************************************************************)
(* The functions that end a handler by calling the next one (always as     *)
(* their last statement) leave the name of that function in `call`;        *)
(* RunCalls below runs the calls to the end.                               *)
(***************************************************************************)
Call(st, function) == [st EXCEPT !.call = function]
Return(st) == [st EXCEPT !.call = "return"]

(***************************************************************************)
(* Finishing a hand and paying it out.                                     *)
(***************************************************************************)
Eligible(st) == Where(st, LAMBDA p : ~p.disconnected /\ p.chips > 0)

\* finishHand up to its call of cleanupDisconnectedPlayers.
ResetHand(st) ==
    [st EXCEPT !.handInProgress = FALSE, !.currentTurnId = NoId,
               !.currentBet = 0, !.lastRaiseSize = BIG_BLIND,
               !.smallBlindId = NoId, !.bigBlindId = NoId,
               !.deck = <<>>, !.burnCards = <<>>, !.seenCards = {},
               !.players = MapPlayers(st, resetPlayerHandState)]

\* A slip of finishHand: one eligible player is enough to go on.
QueueOrEndAlone(st) ==
    IF st.gameStarted /\ Len(Eligible(st)) >= 1
    THEN queueNextHand(emitStateToAll(addLog(st)))
    ELSE emitStateToAll(addLog(cancelNextHandTimer(
            [st EXCEPT !.gameStarted = FALSE, !.phase = "lobby"])))

\* finishHand from `const eligible` on.
QueueOrEnd(st) ==
    IF st.gameStarted /\ Len(Eligible(st)) >= 2
    THEN queueNextHand(emitStateToAll(addLog(st)))
    ELSE emitStateToAll(addLog(cancelNextHandTimer(
            [st EXCEPT !.gameStarted = FALSE, !.phase = "lobby"])))

finishHand(st) ==
    Return(QueueOrEnd(assignAdminIfNeeded(cleanupDisconnectedPlayers(ResetHand(st)))))

RECURSIVE SortAsc(_)
\* [...new Set(values)].sort((a, b) => a - b)
SortAsc(values) ==
    IF values = {} THEN <<>>
    ELSE <<CHOOSE v \in values : \A w \in values : v <= w>>
         \o SortAsc(values \ {CHOOSE v \in values : \A w \in values : v <= w})

\* A slip of orderBySeatAfterDealer: the winners are taken in seat order.
orderBySeat(st, winners) ==
    FilterSeq(Indexes(st.players),
              {k \in 1..Len(st.players) : \E w \in 1..Len(winners) : winners[w] = k})

\* getRingOrder(dealerId), restricted to the seats in winners; seats stand
\* for the ids of the players in them.
orderBySeatAfterDealer(st, winners) ==
    FilterSeq(getRingOrder(st, st.dealerId),
              {k \in 1..Len(st.players) :
                  \E w \in 1..Len(winners) : winners[w] = getRingOrder(st, st.dealerId)[k]})

\* scoreById is kept by seat: the score of the player in the seat, NotInMap
\* for a player without an entry.
NotInMap == [category |-> -2, ranks |-> <<>>]

RECURSIVE pickWinners(_, _, _, _, _)
\* The loop over `eligible` of calculatePayouts: the winners (seats) once the
\* players from the k-th on have been compared.
pickWinners(scoreById, eligible, k, bestScore, winners) ==
    IF k > Len(eligible) THEN winners
    ELSE IF bestScore = NoScore \/ compareScores(scoreById[eligible[k]], bestScore) > 0
    THEN pickWinners(scoreById, eligible, k + 1, scoreById[eligible[k]], <<eligible[k]>>)
    ELSE IF compareScores(scoreById[eligible[k]], bestScore) = 0
    THEN pickWinners(scoreById, eligible, k + 1, bestScore, Append(winners, eligible[k]))
    ELSE pickWinners(scoreById, eligible, k + 1, bestScore, winners)

\* payoutMap (by seat) after sidePot was shared among winners, the odd chips
\* going round orderedWinners.
sharePot(payoutMap, sidePot, winners, orderedWinners) ==
    IF Len(winners) = 0 THEN payoutMap
    ELSE TupleOf([i \in 1..Len(payoutMap) |->
            payoutMap[i]
            + (IF \E w \in 1..Len(winners) : winners[w] = i
               THEN sidePot \div Len(winners) ELSE 0)
            + Cardinality({r \in 0..((sidePot % Len(winners)) - 1) :
                  orderedWinners[(r % Len(orderedWinners)) + 1] = i})])

\* A slip of calculatePayouts: every eligible player shares the side pot.
awardLevelToEveryEligible(st, scoreById, payoutMap, level, previousLevel, involved, eligible) ==
    IF (level - previousLevel) * Len(involved) <= 0 THEN payoutMap
    ELSE IF Len(eligible) = 0 THEN payoutMap
    ELSE sharePot(payoutMap, (level - previousLevel) * Len(involved),
                  eligible, orderBySeatAfterDealer(st, eligible))

\* One iteration of the loop over the levels: payoutMap after the side pot
\* between previousLevel and level was awarded.
awardLevel(st, scoreById, payoutMap, level, previousLevel, involved, eligible) ==
    IF (level - previousLevel) * Len(involved) <= 0 THEN payoutMap
    ELSE IF Len(eligible) = 0 THEN payoutMap
    ELSE sharePot(payoutMap, (level - previousLevel) * Len(involved),
                  pickWinners(scoreById, eligible, 1, NoScore, <<>>),
                  orderBySeatAfterDealer(st,
                      pickWinners(scoreById, eligible, 1, NoScore, <<>>)))

RECURSIVE awardLevels(_, _, _, _, _)
awardLevels(st, scoreById, payoutMap, levels, previousLevel) ==
    IF levels = <<>> THEN payoutMap
    ELSE awardLevels(st, scoreById,
            awardLevel(st, scoreById, payoutMap, Head(levels), previousLevel,
                Where(st, LAMBDA p : p.totalContribution > 0
                                     /\ p.totalContribution >= Head(levels)),
                FilterSeq(Indexes(st.players),
                    {i \in 1..Len(st.players) :
                        /\ st.players[i].totalContribution > 0
                        /\ st.players[i].totalContribution >= Head(levels)
                        /\ scoreById[i] # NotInMap})),
            Tail(levels), Head(levels))

\* The payout of every seat.
calculatePayouts(st, scoreById) ==
    awardLevels(st, scoreById, MapPlayers(st, LAMBDA p : 0),
                SortAsc({st.players[i].totalContribution : i \in
                            {j \in 1..Len(st.players) : st.players[j].totalContribution > 0}}),
                0)

\* row put after the rows of sorted that do not pay less.
InsertRow(sorted, row) ==
    SubSeq(sorted, 1, Cardinality({k \in 1..Len(sorted) : sorted[k].amount >= row.amount}))
    \o <<row>>
    \o SubSeq(sorted, Cardinality({k \in 1..Len(sorted) : sorted[k].amount >= row.amount}) + 1,
              Len(sorted))

RECURSIVE sortRowsDesc(_)
\* rows.sort((a, b) => b.amount - a.amount), which is stable.
sortRowsDesc(rows) ==
    IF rows = <<>> THEN <<>>
    ELSE InsertRow(sortRowsDesc(SubSeq(rows, 1, Len(rows) - 1)), rows[Len(rows)])

\* The seats of the contenders.
Contenders(st) == Where(st, LAMBDA p : p.inHand /\ ~p.folded)

\* The loop that fills scoreById.
ScoreContenders(st) ==
    MapPlayers(st, LAMBDA p : IF p.inHand /\ ~p.folded
                              THEN evaluateBestHand(p.holeCards \o st.communityCards)
                              ELSE NotInMap)

\* The rows of lastShowdown.payouts; winning are the seats paid something.
payoutRows(st, payouts, winning) ==
    sortRowsDesc(TupleOf([k \in 1..Len(winning) |->
        [id |-> st.players[winning[k]].id, amount |-> payouts[winning[k]]]]))

\* The rows of lastShowdown.hands.
handRows(st, scoreById, contenders) ==
    TupleOf([k \in 1..Len(contenders) |->
        [id |-> st.players[contenders[k]].id,
         cards |-> st.players[contenders[k]].holeCards,
         score |-> scoreById[contenders[k]]]])

\* resolveShowdown from `const payouts` on.
payShowdown(st, scoreById, payouts) ==
    Call(
      [addLog(st) EXCEPT
         !.players = TupleOf([i \in 1..Len(st.players) |->
                        IF payouts[i] > 0
                        THEN [st.players[i] EXCEPT !.chips = @ + payouts[i]]
                        ELSE st.players[i]]),
         !.crashed = @ \/ \E i \in 1..Len(scoreById) : scoreById[i] = NoScore,
         !.phase = "showdown",
         !.lastShowdown =
            [type |-> "showdown",
             communityCards |-> st.communityCards,
             hands |-> handRows(st, scoreById, Contenders(st)),
             payouts |-> payoutRows(st, payouts,
                            FilterSeq(Indexes(st.players),
                                      {i \in 1..Len(payouts) : payouts[i] > 0}))],
         !.audit = [contributed |-> SumSeq(MapPlayers(st, LAMBDA p : p.totalContribution)),
                    paid |-> SumSeq(payouts),
                    contributions |-> MapPlayers(st, LAMBDA p : p.totalContribution),
                    scores |-> scoreById,
                    payouts |-> payouts,
                    dealer |-> findPlayer(st, st.dealerId),
                    gone |-> {i \in 1..Len(st.players) : st.players[i].disconnected}]],
      "finishHand")

resolveShowdown(st) ==
    IF Len(Contenders(st)) = 0 THEN Call(addLog(st), "finishHand")
    ELSE payShowdown(st, ScoreContenders(st), calculatePayouts(st, ScoreContenders(st)))

\* A slip of resolveHandByFold: the phase stays that of the street the hand
\* was won on.
payFoldOnTheStreet(st, winner) ==
    Call(
      [addLog(st) EXCEPT
         !.players[winner].chips = @ + st.pot,
         !.lastShowdown = [type |-> "fold",
                           communityCards |-> st.communityCards,
                           hands |-> << [id |-> st.players[winner].id,
                                         cards |-> st.players[winner].holeCards,
                                         score |-> NoScore] >>,
                           payouts |-> << [id |-> st.players[winner].id,
                                           amount |-> st.pot] >>]],
      "finishHand")

\* resolveHandByFold from `const winner` on; winner is the seat.
payFold(st, winner) ==
    Call(
      [addLog(st) EXCEPT
         !.players[winner].chips = @ + st.pot,
         !.phase = "showdown",
         !.lastShowdown = [type |-> "fold",
                           communityCards |-> st.communityCards,
                           hands |-> << [id |-> st.players[winner].id,
                                         cards |-> st.players[winner].holeCards,
                                         score |-> NoScore] >>,
                           payouts |-> << [id |-> st.players[winner].id,
                                           amount |-> st.pot] >>]],
      "finishHand")

\* A slip of resolveHandByFold: the last contender goes to a showdown.
resolveHandByShowdown(st) == Call(st, "resolveShowdown")

resolveHandByFold(st) ==
    IF Len(Contenders(st)) # 1 THEN Call(st, "resolveShowdown")
    ELSE payFold(st, Contenders(st)[1])

(***************************************************************************)
(* Streets.                                                                *)
(***************************************************************************)
\* communityCards.push(drawCard()) once.
dealCommunity(st) == [drawCard(st) EXCEPT !.communityCards = Append(@, topCard(st))]

\* A slip of revealNextStreet: no card is burned before the river.
revealNextStreetRiverUnburned(st) ==
    IF st.phase = "preflop"
    THEN addLog(dealCommunity(dealCommunity(dealCommunity(
             [burnTopCard(st) EXCEPT !.phase = "flop"]))))
    ELSE IF st.phase = "flop"
    THEN addLog(dealCommunity([burnTopCard(st) EXCEPT !.phase = "turn"]))
    ELSE IF st.phase = "turn"
    THEN addLog(dealCommunity([st EXCEPT !.phase = "river"]))
    ELSE st

revealNextStreet(st) ==
    IF st.phase = "preflop"
    THEN addLog(dealCommunity(dealCommunity(dealCommunity(
             [burnTopCard(st) EXCEPT !.phase = "flop"]))))
    ELSE IF st.phase = "flop"
    THEN addLog(dealCommunity([burnTopCard(st) EXCEPT !.phase = "turn"]))
    ELSE IF st.phase = "turn"
    THEN addLog(dealCommunity([burnTopCard(st) EXCEPT !.phase = "river"]))
    ELSE st

RECURSIVE revealUntilRiver(_)
\* while (state.phase !== "river") revealNextStreet(); a phase from which the
\* river is never reached hangs the process.
revealUntilRiver(st) ==
    IF st.phase = "river" THEN st
    ELSE IF st.phase \notin {"preflop", "flop", "turn"} THEN [st EXCEPT !.crashed = TRUE]
    ELSE revealUntilRiver(revealNextStreet(st))

\* A slip of fastForwardBoardAndShowdown: the showdown is held on the board
\* as it is.
fastForwardToShowdown(st) ==
    IF ~st.handInProgress THEN Return(st)
    ELSE IF countRemainingInHand(st) <= 1 THEN Call(st, "resolveHandByFold")
    ELSE Call(st, "resolveShowdown")

fastForwardBoardAndShowdown(st) ==
    IF ~st.handInProgress THEN Return(st)
    ELSE IF countRemainingInHand(st) <= 1 THEN Call(st, "resolveHandByFold")
    ELSE Call(revealUntilRiver(st), "resolveShowdown")

\* A slip of goToNextStreet and startNextHand: the turn is given without a
\* state message.
giveTurnSilently(st, fromPlayerId) ==
    IF getNextPlayer(st, fromPlayerId, isPlayerActionable) = 0
    THEN Call([st EXCEPT !.currentTurnId = NoId], "fastForwardBoardAndShowdown")
    ELSE Return([st EXCEPT !.currentTurnId =
             st.players[getNextPlayer(st, fromPlayerId, isPlayerActionable)].id])

\* The end of goToNextStreet and of startNextHand: the turn goes to the first
\* actionable player after fromPlayerId, and without one the board runs out.
giveTurn(st, fromPlayerId) ==
    IF getNextPlayer(st, fromPlayerId, isPlayerActionable) = 0
    THEN Call([st EXCEPT !.currentTurnId = NoId], "fastForwardBoardAndShowdown")
    ELSE Return(emitStateToAll([st EXCEPT !.currentTurnId =
             st.players[getNextPlayer(st, fromPlayerId, isPlayerActionable)].id]))

\* A slip of goToNextStreet: currentBet is not reset.
openStreetKeepingBet(st) ==
    giveTurn(
      [st EXCEPT !.players = MapPlayers(st,
                     LAMBDA p : IF p.inHand
                                THEN [p EXCEPT !.betThisRound = 0,
                                               !.acted = ~isPlayerActionable(p)]
                                ELSE p),
                 !.lastRaiseSize = BIG_BLIND],
      st.dealerId)

\* goToNextStreet from its loop over the players on.
openStreet(st) ==
    giveTurn(
      [st EXCEPT !.players = MapPlayers(st,
                     LAMBDA p : IF p.inHand
                                THEN [p EXCEPT !.betThisRound = 0,
                                               !.acted = ~isPlayerActionable(p)]
                                ELSE p),
                 !.currentBet = 0,
                 !.lastRaiseSize = BIG_BLIND],
      st.dealerId)

goToNextStreet(st) ==
    IF ~st.handInProgress THEN Return(st)
    ELSE IF st.phase = "river" THEN Call(st, "resolveShowdown")
    ELSE openStreet(revealNextStreet(st))

\* A slip of advanceAfterAction: the turn passes on though the round is
\* complete.
advanceAfterActionAround(st) ==
    IF ~st.handInProgress THEN Return(st)
    ELSE IF countRemainingInHand(st) <= 1 THEN Call(st, "resolveHandByFold")
    ELSE IF getNextPlayer(st, st.lastActorId, isPlayerActionable) = 0
    THEN Call(st, "goToNextStreet")
    ELSE Return(emitStateToAll([st EXCEPT !.currentTurnId =
             st.players[getNextPlayer(st, st.lastActorId, isPlayerActionable)].id]))

\* lastActorId is st.lastActorId.
advanceAfterAction(st) ==
    IF ~st.handInProgress THEN Return(st)
    ELSE IF countRemainingInHand(st) <= 1 THEN Call(st, "resolveHandByFold")
    ELSE IF isBettingRoundComplete(st) THEN Call(st, "goToNextStreet")
    ELSE IF getNextPlayer(st, st.lastActorId, isPlayerActionable) = 0
    THEN Call(st, "goToNextStreet")
    ELSE Return(emitStateToAll([st EXCEPT !.currentTurnId =
             st.players[getNextPlayer(st, st.lastActorId, isPlayerActionable)].id]))

\* The call advanceAfterAction(lastActorId).
CallAdvance(st, lastActorId) ==
    [st EXCEPT !.call = "advanceAfterAction", !.lastActorId = lastActorId]

(***************************************************************************)
(* Starting a hand.                                                        *)
(***************************************************************************)
\* A slip of postForcedBet: a blind that takes the last chips does not mark
\* the player all-in.
markAllInNever(st, i) == st

\* `if (player.chips === 0) player.allIn = true` for the player in seat i.
markAllIn(st, i) ==
    IF st.players[i].chips = 0 THEN [st EXCEPT !.players[i].allIn = TRUE] ELSE st

\* A slip of postForcedBet: the blind is posted in full by a shorter stack.
postForcedBetInFull(st, i, amount) ==
    addLog(markAllIn(commitBet(st, i, amount), i))

postForcedBet(st, i, amount) ==
    addLog(markAllIn(commitBet(st, i, Min2(amount, st.players[i].chips)), i))

\* player.holeCards.push(drawCard())
dealHole(st, i) == [drawCard(st) EXCEPT !.players[i].holeCards = Append(@, topCard(st))]

RECURSIVE dealRound(_, _)
\* for (const player of state.players) if (player.inHand) deal one card: the
\* seats from the i-th on.
dealRound(st, i) ==
    IF i > Len(st.players) THEN st
    ELSE dealRound(IF st.players[i].inHand THEN dealHole(st, i) ELSE st, i + 1)

\* startNextHand when fewer than two players are eligible.
stopGame(st) ==
    Return(emitStateToAll(addLog(cancelNextHandTimer(
        [st EXCEPT !.gameStarted = FALSE, !.handInProgress = FALSE,
                   !.phase = "lobby", !.deck = <<>>, !.burnCards = <<>>,
                   !.seenCards = {}, !.currentTurnId = NoId,
                   !.smallBlindId = NoId, !.bigBlindId = NoId,
                   !.currentBet = 0, !.lastRaiseSize = BIG_BLIND]))))

\* startNextHand from `state.handInProgress = true` to the loop that resets
\* the players; st.d chooses what shuffleDeck's random numbers make of the
\* deck.
resetForHand(st) ==
    [st EXCEPT !.handInProgress = TRUE, !.phase = "preflop",
               !.handNumber = @ + 1, !.communityCards = <<>>, !.pot = 0,
               !.currentBet = 0, !.lastRaiseSize = BIG_BLIND,
               !.currentTurnId = NoId, !.smallBlindId = NoId,
               !.bigBlindId = NoId, !.lastShowdown = NoShowdown,
               !.burnCards = <<>>, !.seenCards = {},
               !.deck = Shuffled[st.d],
               !.crashed = @ \/ ~DeckShapeOk[st.d],
               !.audit = NoAudit, !.handsDealt = @ + 1,
               !.players = MapPlayers(st,
                   LAMBDA p : [p EXCEPT
                       !.inHand = ~p.disconnected /\ p.chips > 0,
                       !.folded = ~(~p.disconnected /\ p.chips > 0),
                       !.allIn = FALSE, !.holeCards = <<>>, !.betThisRound = 0,
                       !.totalContribution = 0, !.acted = FALSE])]

\* The dealer button moves; eligible are the seats found eligible.
moveDealer(st, eligible) ==
    [st EXCEPT !.dealerId =
        IF st.dealerId = NoId
           \/ ~\E k \in 1..Len(eligible) : st.players[eligible[k]].id = st.dealerId
        THEN st.players[eligible[1]].id
        ELSE IF getNextPlayer(st, st.dealerId, LAMBDA p : p.inHand) # 0
        THEN st.players[getNextPlayer(st, st.dealerId, LAMBDA p : p.inHand)].id
        ELSE st.players[eligible[1]].id]

\* The seats of the blinds, 0 for null.
smallBlindPlayer(st) ==
    IF Len(Where(st, LAMBDA p : p.inHand)) = 2 THEN findPlayer(st, st.dealerId)
    ELSE getNextPlayer(st, st.dealerId, LAMBDA p : p.inHand)

bigBlindPlayer(st) ==
    IF Len(Where(st, LAMBDA p : p.inHand)) = 2
    THEN getNextPlayer(st, st.dealerId, LAMBDA p : p.inHand)
    ELSE getNextPlayer(st, IF smallBlindPlayer(st) # 0
                           THEN st.players[smallBlindPlayer(st)].id ELSE st.dealerId,
                       LAMBDA p : p.inHand)

\* startNextHand from `state.currentBet = Math.max(...)` on; sb and bb are
\* the seats of the blinds.
\* A slip of startNextHand: currentBet is what the big blind has posted.
openPreflopAtPosted(st, sb, bb) ==
    giveTurn(
      [addLog(st) EXCEPT
         !.currentBet = st.players[bb].betThisRound,
         !.lastRaiseSize = BIG_BLIND,
         !.players = MapPlayers(st, LAMBDA p : [p EXCEPT !.acted = ~isPlayerActionable(p)])],
      st.bigBlindId)

openPreflop(st, sb, bb) ==
    giveTurn(
      [addLog(st) EXCEPT
         !.currentBet = Max2(BIG_BLIND, Max2(st.players[sb].betThisRound,
                                             st.players[bb].betThisRound)),
         !.lastRaiseSize = BIG_BLIND,
         !.players = MapPlayers(st, LAMBDA p : [p EXCEPT !.acted = ~isPlayerActionable(p)])],
      st.bigBlindId)

\* startNextHand from `if (!smallBlindPlayer || !bigBlindPlayer)` on.
postBlinds(st, sb, bb) ==
    IF sb = 0 \/ bb = 0 THEN Call(addLog(st), "resolveHandByFold")
    ELSE openPreflop(
           postForcedBet(
             postForcedBet([st EXCEPT !.smallBlindId = st.players[sb].id,
                                      !.bigBlindId = st.players[bb].id],
                           sb, SMALL_BLIND),
             bb, BIG_BLIND),
           sb, bb)

\* startNextHand from the dealing of the hole cards on.
dealAndPost(st) == postBlinds(st, smallBlindPlayer(st), bigBlindPlayer(st))

\* startNextHand after cleanupDisconnectedPlayers and assignAdminIfNeeded.
beginHand(st) ==
    IF Len(Eligible(st)) < 2 THEN stopGame(st)
    ELSE dealAndPost(dealRound(dealRound(
             moveDealer(resetForHand(st), Eligible(st)), 1), 1))

startNextHand(st) == beginHand(assignAdminIfNeeded(cleanupDisconnectedPlayers(st)))

RECURSIVE RunCalls(_)
\* The calls a handler ends with, run until the last function returns.
RunCalls(st) ==
    CASE st.call = "advanceAfterAction" -> RunCalls(advanceAfterAction(st))
      [] st.call = "goToNextStreet" -> RunCalls(goToNextStreet(st))
      [] st.call = "fastForwardBoardAndShowdown" -> RunCalls(fastForwardBoardAndShowdown(st))
      [] st.call = "resolveHandByFold" -> RunCalls(resolveHandByFold(st))
      [] st.call = "resolveShowdown" -> RunCalls(resolveShowdown(st))
      [] st.call = "finishHand" -> RunCalls(finishHand(st))
      [] st.call = "startNextHand" -> RunCalls(startNextHand(st))
      [] OTHER -> st

(***************************************************************************)
(* The action handler.  A payload number is kept as [n, isInteger]: the    *)
(* value when Number.isInteger holds of it, and whether it does.           *)
(***************************************************************************)
toLowerCase(type) ==
    CASE type = "FOLD" -> "fold" [] type = "Raise" -> "raise" [] OTHER -> type

\* `player.acted = true; if (player.chips === 0) player.allIn = true`
\* A slip of the raise branch: the raiser's acted flag is not set.
markAllInOnly(st, i) ==
    [st EXCEPT !.players[i].allIn = @ \/ st.players[i].chips = 0]

markActed(st, i) ==
    [st EXCEPT !.players[i].acted = TRUE,
               !.players[i].allIn = @ \/ st.players[i].chips = 0]

\* A slip of the raise branch: every raise reopens the betting.
reopenBettingOnEveryRaise(st, isFullRaise, raiseSize) ==
    [st EXCEPT !.lastRaiseSize = IF isFullRaise THEN raiseSize ELSE @,
               !.players = MapPlayers(st,
                   LAMBDA p : [p EXCEPT !.acted = ~isPlayerActionable(p)])]

\* A slip of the raise branch: every raise sets lastRaiseSize.
reopenBettingWithEverySize(st, isFullRaise, raiseSize) ==
    IF isFullRaise
    THEN [st EXCEPT !.lastRaiseSize = raiseSize,
                    !.players = MapPlayers(st,
                        LAMBDA p : [p EXCEPT !.acted = ~isPlayerActionable(p)])]
    ELSE [st EXCEPT !.lastRaiseSize = raiseSize]

\* `if (isFullRaise) { ... }` of the raise branch.
reopenBetting(st, isFullRaise, raiseSize) ==
    IF isFullRaise
    THEN [st EXCEPT !.lastRaiseSize = raiseSize,
                    !.players = MapPlayers(st,
                        LAMBDA p : [p EXCEPT !.acted = ~isPlayerActionable(p)])]
    ELSE st

toCallOf(st, i) == Max2(0, st.currentBet - st.players[i].betThisRound)

\* A slip of the raise branch: a raise to the current bet or less is taken
\* when it is all the player has.
raiseToAnyAllIn(st, i, amount) ==
    IF ~amount.isInteger THEN sendError(st, "Raise amount must be an integer.")
    ELSE IF ~(~st.players[i].acted \/ toCallOf(st, i) = 0)
    THEN sendError(st, "Betting is not reopened. You may only call or fold.")
    ELSE IF amount.n > st.players[i].betThisRound + st.players[i].chips
    THEN sendError(st, "You do not have enough chips for that raise.")
    ELSE IF amount.n < getMinRaiseTo(st)
            /\ ~(amount.n = st.players[i].betThisRound + st.players[i].chips)
    THEN sendError(st, "Minimum raise is to minRaiseTo, unless you are all-in.")
    ELSE CallAdvance(
           addLog(markActed(
             reopenBetting(
               [commitBet(st, i, amount.n - st.players[i].betThisRound)
                   EXCEPT !.currentBet = amount.n],
               amount.n - st.currentBet >= st.lastRaiseSize,
               amount.n - st.currentBet),
             i)),
           st.players[i].id)

\* The raise branch of handleAction for the player in seat i.
raise(st, i, amount) ==
    IF ~amount.isInteger THEN sendError(st, "Raise amount must be an integer.")
    ELSE IF ~(~st.players[i].acted \/ toCallOf(st, i) = 0)
    THEN sendError(st, "Betting is not reopened. You may only call or fold.")
    ELSE IF amount.n <= st.currentBet
    THEN sendError(st, "Raise must be higher than current bet.")
    ELSE IF amount.n > st.players[i].betThisRound + st.players[i].chips
    THEN sendError(st, "You do not have enough chips for that raise.")
    ELSE IF amount.n < getMinRaiseTo(st)
            /\ ~(amount.n = st.players[i].betThisRound + st.players[i].chips)
    THEN sendError(st, "Minimum raise is to minRaiseTo, unless you are all-in.")
    ELSE CallAdvance(
           addLog(markActed(
             reopenBetting(
               [commitBet(st, i, amount.n - st.players[i].betThisRound)
                   EXCEPT !.currentBet = amount.n],
               amount.n - st.currentBet >= st.lastRaiseSize,
               amount.n - st.currentBet),
             i)),
           st.players[i].id)

\* handleAction once the player was found in seat i.
act(st, i, playerId, actionType, amount) ==
    IF ~st.gameStarted \/ ~st.handInProgress
    THEN sendError(st, "No active hand right now.")
    ELSE IF st.currentTurnId # playerId THEN sendError(st, "It is not your turn.")
    ELSE IF ~isPlayerActionable(st.players[i]) THEN sendError(st, "You cannot act right now.")
    ELSE IF actionType = "fold"
    THEN CallAdvance(addLog([st EXCEPT !.players[i].folded = TRUE,
                                       !.players[i].inHand = FALSE,
                                       !.players[i].acted = TRUE]),
                     st.players[i].id)
    ELSE IF actionType = "check"
    THEN IF toCallOf(st, i) # 0 THEN sendError(st, "You cannot check when facing a bet.")
         ELSE CallAdvance(addLog([st EXCEPT !.players[i].acted = TRUE]), st.players[i].id)
    ELSE IF actionType = "call"
    THEN IF toCallOf(st, i) = 0 THEN sendError(st, "Nothing to call. Use check.")
         ELSE CallAdvance(
                addLog(markActed(commitBet(st, i, Min2(toCallOf(st, i), st.players[i].chips)), i)),
                st.players[i].id)
    ELSE IF actionType = "raise" THEN raise(st, i, amount)
    ELSE sendError(st, "Invalid action.")

handleAction(st, playerId, action) ==
    IF findPlayer(st, playerId) = 0 THEN st
    ELSE act(st, findPlayer(st, playerId), playerId, toLowerCase(action.type), action.amount)

(***************************************************************************)
(* Disconnects.                                                            *)
(***************************************************************************)
\* A slip of handleDisconnect: disconnected players are removed at once,
\* whether a hand is in progress or not.
stopIfAloneSweeping(st) ==
    Return(emitStateToAll(
        IF st.gameStarted /\ ~st.handInProgress /\ Len(Eligible(st)) < 2
        THEN addLog(cancelNextHandTimer([cleanupDisconnectedPlayers(st)
                                            EXCEPT !.gameStarted = FALSE, !.phase = "lobby"]))
        ELSE cleanupDisconnectedPlayers(st)))

\* A slip of handleDisconnect: the game is stopped and its timeout is left.
stopIfAloneTimerLeft(st) ==
    Return(emitStateToAll(
        IF st.gameStarted /\ ~st.handInProgress /\ Len(Eligible(st)) < 2
        THEN addLog([st EXCEPT !.gameStarted = FALSE, !.phase = "lobby"])
        ELSE st))

\* handleDisconnect from `if (state.gameStarted && !state.handInProgress)` on.
stopIfAlone(st) ==
    Return(emitStateToAll(
        IF st.gameStarted /\ ~st.handInProgress /\ Len(Eligible(st)) < 2
        THEN addLog(cancelNextHandTimer([st EXCEPT !.gameStarted = FALSE, !.phase = "lobby"]))
        ELSE st))

\* A slip of handleDisconnect: the turn stays with the player who has left.
foldedByDisconnectOnTurn(st, i) ==
    IF countRemainingInHand(st) <= 1 THEN Call(st, "resolveHandByFold")
    ELSE stopIfAlone(st)

\* The else branch of `if (player.allIn)`: the player in seat i has folded.
foldedByDisconnect(st, i) ==
    IF st.currentTurnId = st.players[i].id THEN CallAdvance(st, st.players[i].id)
    ELSE IF countRemainingInHand(st) <= 1 THEN Call(st, "resolveHandByFold")
    ELSE stopIfAlone(st)

\* A slip of handleDisconnect: a player who is all-in is folded as well.
leaveHandFolded(st, i) ==
    IF st.handInProgress /\ st.players[i].inHand /\ ~st.players[i].folded
    THEN foldedByDisconnect(addLog([st EXCEPT !.players[i].folded = TRUE,
                                              !.players[i].inHand = FALSE,
                                              !.players[i].acted = TRUE]), i)
    ELSE IF ~st.handInProgress THEN stopIfAlone(cleanupDisconnectedPlayers(st))
    ELSE stopIfAlone(st)

\* handleDisconnect after assignAdminIfNeeded, for the player in seat i.
leaveHand(st, i) ==
    IF st.handInProgress /\ st.players[i].inHand /\ ~st.players[i].folded
    THEN IF st.players[i].allIn THEN stopIfAlone(addLog(st))
         ELSE foldedByDisconnect(addLog([st EXCEPT !.players[i].folded = TRUE,
                                                   !.players[i].inHand = FALSE,
                                                   !.players[i].acted = TRUE]), i)
    ELSE IF ~st.handInProgress THEN stopIfAlone(cleanupDisconnectedPlayers(st))
    ELSE stopIfAlone(st)

handleDisconnect(st, playerId) ==
    IF findPlayer(st, playerId) = 0 THEN st
    ELSE leaveHand(assignAdminIfNeeded(addLog(
                      [st EXCEPT !.players[findPlayer(st, playerId)].disconnected = TRUE,
                                 !.players[findPlayer(st, playerId)].isAdmin = FALSE])),
                   findPlayer(st, playerId))

(***************************************************************************)
(* Names.  A name payload is [isString, chars], chars the characters.      *)
(***************************************************************************)
IsSpace(c) == c \in {" ", "\t"}

RECURSIVE trimStart(_)
trimStart(cs) == IF cs # <<>> /\ IsSpace(Head(cs)) THEN trimStart(Tail(cs)) ELSE cs

trim(cs) == Reverse(trimStart(Reverse(trimStart(cs))))

RECURSIVE collapseSpace(_)
\* replace(/\s+/g, " ")
collapseSpace(cs) ==
    IF cs = <<>> THEN <<>>
    ELSE IF IsSpace(Head(cs))
    THEN <<" ">> \o collapseSpace(trimStart(cs))
    ELSE <<Head(cs)>> \o collapseSpace(Tail(cs))

\* The sanitized name, <<>> for "".
sanitizeName(value) ==
    IF ~value.isString THEN <<>>
    ELSE LET trimmed == collapseSpace(trim(value.chars))
         IN IF Len(trimmed) < MIN_NAME_LEN \/ Len(trimmed) > MAX_NAME_LEN THEN <<>>
            ELSE trimmed

(***************************************************************************)
(* What a viewer is shown (buildStateFor).                                 *)
(***************************************************************************)
NoActions(st) ==
    [canFold |-> FALSE, canCheck |-> FALSE, canCall |-> FALSE, canRaise |-> FALSE,
     callAmount |-> 0, minRaiseTo |-> getMinRaiseTo(st), maxRaiseTo |-> 0]

\* A slip of computeAvailableActions: fold is offered only against a bet.
computeAvailableActionsFoldToBet(st, i) ==
    IF i = 0 \/ ~st.handInProgress THEN NoActions(st)
    ELSE IF st.currentTurnId # st.players[i].id \/ ~isPlayerActionable(st.players[i])
    THEN NoActions(st)
    ELSE [canFold |-> toCallOf(st, i) > 0,
          canCheck |-> toCallOf(st, i) = 0,
          canCall |-> toCallOf(st, i) > 0 /\ st.players[i].chips > 0,
          canRaise |-> /\ ~st.players[i].acted \/ toCallOf(st, i) = 0
                       /\ st.players[i].chips > 0
                       /\ st.players[i].betThisRound + st.players[i].chips > st.currentBet,
          callAmount |-> Min2(toCallOf(st, i), st.players[i].chips),
          minRaiseTo |->
              IF st.players[i].betThisRound + st.players[i].chips < getMinRaiseTo(st)
              THEN st.players[i].betThisRound + st.players[i].chips
              ELSE getMinRaiseTo(st),
          maxRaiseTo |-> st.players[i].betThisRound + st.players[i].chips]

\* A slip of computeAvailableActions: a raise is offered whether betting is
\* reopened or not.
computeAvailableActionsEverRaising(st, i) ==
    IF i = 0 \/ ~st.handInProgress THEN NoActions(st)
    ELSE IF st.currentTurnId # st.players[i].id \/ ~isPlayerActionable(st.players[i])
    THEN NoActions(st)
    ELSE [canFold |-> TRUE,
          canCheck |-> toCallOf(st, i) = 0,
          canCall |-> toCallOf(st, i) > 0 /\ st.players[i].chips > 0,
          canRaise |-> /\ st.players[i].chips > 0
                       /\ st.players[i].betThisRound + st.players[i].chips > st.currentBet,
          callAmount |-> Min2(toCallOf(st, i), st.players[i].chips),
          minRaiseTo |->
              IF st.players[i].betThisRound + st.players[i].chips < getMinRaiseTo(st)
              THEN st.players[i].betThisRound + st.players[i].chips
              ELSE getMinRaiseTo(st),
          maxRaiseTo |-> st.players[i].betThisRound + st.players[i].chips]

\* computeAvailableActions of the player in seat i (0: no such player).
computeAvailableActions(st, i) ==
    IF i = 0 \/ ~st.handInProgress THEN NoActions(st)
    ELSE IF st.currentTurnId # st.players[i].id \/ ~isPlayerActionable(st.players[i])
    THEN NoActions(st)
    ELSE [canFold |-> TRUE,
          canCheck |-> toCallOf(st, i) = 0,
          canCall |-> toCallOf(st, i) > 0 /\ st.players[i].chips > 0,
          canRaise |-> /\ ~st.players[i].acted \/ toCallOf(st, i) = 0
                       /\ st.players[i].chips > 0
                       /\ st.players[i].betThisRound + st.players[i].chips > st.currentBet,
          callAmount |-> Min2(toCallOf(st, i), st.players[i].chips),
          minRaiseTo |->
              IF st.players[i].betThisRound + st.players[i].chips < getMinRaiseTo(st)
              THEN st.players[i].betThisRound + st.players[i].chips
              ELSE getMinRaiseTo(st),
          maxRaiseTo |-> st.players[i].betThisRound + st.players[i].chips]

\* The availableActions and canAct fields of buildStateFor(viewerId).
availableActions(st, viewerId) == computeAvailableActions(st, findPlayer(st, viewerId))

canAct(st, viewerId) ==
    /\ findPlayer(st, viewerId) # 0
    /\ st.currentTurnId = viewerId
    /\ isPlayerActionable(st.players[findPlayer(st, viewerId)])

(***************************************************************************)
(* Inputs of the events.                                                   *)
(***************************************************************************)
Num(n) == [n |-> n, isInteger |-> TRUE]
NotANumber == [n |-> 0, isInteger |-> FALSE]

\* The names a client sends: one that is accepted once trimmed and collapsed,
\* one too short once trimmed, one too long, and a payload without a string.
NameInputs ==
    { [isString |-> TRUE, chars |-> <<" ", "a", " ", "\t", "b", " ">>],
      [isString |-> TRUE, chars |-> <<" ", "a", " ">>],
      [isString |-> TRUE, chars |-> [k \in 1..(MAX_NAME_LEN + 1) |-> "x"]],
      [isString |-> FALSE, chars |-> <<>>] }

StackInputs == { Num(MIN_STACK - 1), Num(MIN_STACK + 5), Num(MAX_STACK + 1), NotANumber }

\* Raise targets a client sends, besides its maxRaiseTo.
RaiseInputs == { Num(3 * BIG_BLIND), NotANumber }

\* The actions socket `id` sends: every type, "raise" with each of the
\* targets and with the sender's maxRaiseTo.
ActionsWith(st, id, targets) ==
    { [type |-> t, amount |-> Num(0)] : t \in {"fold", "FOLD", "check", "call", "bet"} }
    \cup { [type |-> "raise", amount |-> a] : a \in targets }
    \cup { [type |-> "raise", amount |-> Num(st.players[i].betThisRound + st.players[i].chips)] :
              i \in {findPlayer(st, id)} \ {0} }

ActionInputs(st, id) == ActionsWith(st, id, RaiseInputs)

\* Raise targets of a deep-stacked street: a bet of 100 and a raise to 250.
DeepRaiseInputs == { Num(5 * BIG_BLIND), Num(5 * BIG_BLIND + 150) }

(***************************************************************************)
(* The events.                                                             *)
(***************************************************************************)
join(st, id, payload) ==
    IF findPlayer(st, id) # 0 THEN sendError(st, "You are already seated.")
    ELSE IF st.gameStarted
    THEN sendError(st, "Game already started. Wait for the next game.")
    ELSE IF sanitizeName(payload) = <<>>
    THEN sendError(st, "Enter a valid name (2-20 characters).")
    ELSE emitStateToAll(addLog(assignAdminIfNeeded(
            [st EXCEPT !.players = Append(@, createPlayer(st, id, sanitizeName(payload)))])))

setStartingStack(st, id, amount) ==
    IF findPlayer(st, id) = 0 \/ ~st.players[findPlayer(st, id)].isAdmin
    THEN sendError(st, "Only the admin can set starting money.")
    ELSE IF st.gameStarted
    THEN sendError(st, "Cannot change starting money after game start.")
    ELSE IF ~amount.isInteger \/ amount.n < MIN_STACK \/ amount.n > MAX_STACK
    THEN sendError(st, "Starting money must be an integer between 50 and 1,000,000.")
    ELSE emitStateToAll(addLog(
            [st EXCEPT !.startingStack = amount.n,
                       !.players = MapPlayers(st,
                           LAMBDA p : IF ~p.disconnected
                                      THEN [p EXCEPT !.chips = amount.n]
                                      ELSE p)]))

\* startGame from `for (const connectedPlayer of connectedPlayers)` on.
restart(st) ==
    Call(addLog(
           [cancelNextHandTimer(
              [st EXCEPT !.players = MapPlayers(st,
                  LAMBDA p : IF ~p.disconnected
                             THEN resetPlayerHandState([p EXCEPT !.chips = st.startingStack])
                             ELSE p)])
            EXCEPT !.gameStarted = TRUE, !.handNumber = 0, !.dealerId = NoId,
                   !.lastShowdown = NoShowdown]),
         "startNextHand")

\* startGame from cleanupDisconnectedPlayers on.
startIfEnough(st) ==
    IF Len(getConnectedPlayers(st)) < 2
    THEN sendError(st, "Need at least 2 players to start.")
    ELSE restart(st)

startGame(st, id) ==
    IF findPlayer(st, id) = 0 \/ ~st.players[findPlayer(st, id)].isAdmin
    THEN sendError(st, "Only the admin can start the game.")
    ELSE IF st.gameStarted THEN sendError(st, "Game is already running.")
    ELSE startIfEnough(cleanupDisconnectedPlayers(st))

\* An event as the server receives it: the handler registered for its type
\* runs to completion, the calls it ends with included.  The payload of a
\* "startGame" or "timer" event is the shuffle the hand it deals will draw.
Event(type, id, payload) == [type |-> type, id |-> id, payload |-> payload]

Handle(st, e) ==
    RunCalls(
        CASE e.type = "join" -> join(st, e.id, e.payload)
          [] e.type = "setStartingStack" -> setStartingStack(st, e.id, e.payload)
          [] e.type = "startGame" -> startGame([st EXCEPT !.d = e.payload], e.id)
          [] e.type = "action" -> handleAction(st, e.id, e.payload)
          [] e.type = "disconnect" ->
                handleDisconnect([st EXCEPT !.sockets = @ \ {e.id}], e.id)
          [] e.type = "timer" ->
                Call(timerFires([st EXCEPT !.d = e.payload]), "startNextHand"))

\* What every handler starts from: nothing sent yet.
Fresh == [T EXCEPT !.error = NoError]

\* An event is handled once the reply to the last one has left: a rejected
\* event changes nothing but `error`, so what can follow it is what can
\* follow the state it was sent in.
Idle == ~crashed /\ error = NoError

\* Socket ids are opaque to the server, so the sockets take their seats in
\* the order of their ids.
Join(id, payload) ==
    /\ Idle
    /\ id \in sockets
    /\ \/ findPlayer(T, id) # 0
       \/ \A other \in sockets : findPlayer(T, other) = 0 => id <= other
    /\ Becomes(Handle(Fresh, Event("join", id, payload)))

SetStartingStack(id, amount) ==
    /\ Idle
    /\ id \in sockets
    /\ Becomes(Handle(Fresh, Event("setStartingStack", id, amount)))

StartGame(id, d) ==
    /\ Idle
    /\ id \in sockets
    /\ Becomes(Handle(Fresh, Event("startGame", id, d)))
    /\ handsDealt' <= MaxHands

Action(id, action) ==
    /\ Idle
    /\ id \in sockets
    /\ Becomes(Handle(Fresh, Event("action", id, action)))

Disconnect(id) ==
    /\ Idle
    /\ id \in sockets
    /\ NumSockets - Cardinality(sockets) < MaxDisconnects
    /\ Becomes(Handle(Fresh, Event("disconnect", id, NoId)))

\* The timeout of queueNextHand fires.
TimerFire(d) ==
    /\ Idle
    /\ timers > 0
    /\ Becomes(Handle(Fresh, Event("timer", NoId, d)))
    /\ handsDealt' <= MaxHands

(***************************************************************************)
(* The states the exploration starts from.                                 *)
(***************************************************************************)
DEFAULT_STARTING_STACK == 1000

\* The server once its module is loaded, every socket connected.
Lobby ==
    [players |-> <<>>, startingStack |-> DEFAULT_STARTING_STACK,
     gameStarted |-> FALSE, handInProgress |-> FALSE, handNumber |-> 0,
     phase |-> "lobby", deck |-> <<>>, burnCards |-> <<>>, seenCards |-> {},
     communityCards |-> <<>>, pot |-> 0, currentBet |-> 0,
     lastRaiseSize |-> BIG_BLIND, currentTurnId |-> NoId, dealerId |-> NoId,
     smallBlindId |-> NoId, bigBlindId |-> NoId, lastShowdown |-> NoShowdown,
     nextHandTimer |-> FALSE, timerArmed |-> FALSE, timers |-> 0,
     sockets |-> 1..NumSockets,
     error |-> NoError, crashed |-> FALSE, audit |-> NoAudit, handsDealt |-> 0,
     call |-> "return", lastActorId |-> NoId, d |-> 1, logged |-> 0,
     sent |-> <<>>]

\* The state the server is in after it has handled the events, in order.
RECURSIVE Replay(_, _)
Replay(st, events) ==
    IF events = <<>> THEN st
    ELSE Replay(Handle([st EXCEPT !.error = NoError, !.logged = 0, !.sent = <<>>], Head(events)),
                Tail(events))

GoodName == [isString |-> TRUE, chars |-> <<"a", "b">>]
Act(id, type) == Event("action", id, [type |-> type, amount |-> Num(0)])
RaiseTo(id, n) == Event("action", id, [type |-> "raise", amount |-> Num(n)])

\* Three players seated, the admin has set the stacks and started the game:
\* seat 1 deals the first hand and is first to act, seat 2 is the small blind
\* and seat 3 the big blind.
Seated(stack) ==
    Replay(Lobby,
           << Event("join", 1, GoodName), Event("join", 2, GoodName),
              Event("join", 3, GoodName), Event("setStartingStack", 1, Num(stack)),
              Event("startGame", 1, 1) >>)

FirstHandOf55 == Seated(MIN_STACK + 5)

\* A first hand of 55-chip stacks that both players before the big blind
\* fold: the stacks are 55, 45 and 65 when the timer of the next hand runs.
BlindsStolen == Replay(FirstHandOf55, << Act(1, "fold"), Act(2, "fold") >>)

\* A first hand of 55-chip stacks that the dealer raises to 40, the big blind
\* calls and pushes its last 15 chips on the flop, and the dealer folds: the
\* dealer, who is the big blind of the next hand, is left with 15 chips.
DealerGaveUp ==
    Replay(FirstHandOf55,
           << RaiseTo(1, 2 * BIG_BLIND), Act(2, "fold"), Act(3, "call"),
              RaiseTo(3, MIN_STACK + 5 - 2 * BIG_BLIND), Act(1, "fold") >>)

\* Two hands of 120-chip stacks.  In the first everybody sees the flop for
\* 20 and the blinds give up to the dealer's bet, which leaves the stacks at
\* 160, 100 and 100.  The second is dealt from the deck whose board plays for
\* everybody: seat 2 (the dealer) and seat 3 call, and seat 1 (the big blind)
\* raises to 101, one chip more than the others hold.  This hand is the last
\* one of the behaviours that start here.
FirstHandOf120 == Seated(6 * BIG_BLIND)

FlopFor20 ==
    Replay(FirstHandOf120,
           << Act(1, "call"), Act(2, "call"), Act(3, "check"),
              Act(2, "check"), Act(3, "check") >>)

BlindsGaveUp ==
    Replay(FlopFor20, << RaiseTo(1, BIG_BLIND), Act(2, "fold"), Act(3, "fold") >>)

RaisedTo101 ==
    Replay(BlindsGaveUp,
           << Event("timer", NoId, 3), Act(2, "call"), Act(3, "call"),
              RaiseTo(1, 5 * BIG_BLIND + 1) >>)

\* The hands counted are those dealt since the exploration started.
Between(st) == [st EXCEPT !.handsDealt = 0, !.audit = NoAudit]

\* The table is in state st.
TableIs(st) ==
    /\ players = st.players
    /\ startingStack = st.startingStack
    /\ gameStarted = st.gameStarted
    /\ handInProgress = st.handInProgress
    /\ handNumber = st.handNumber
    /\ phase = st.phase
    /\ deck = st.deck
    /\ burnCards = st.burnCards
    /\ seenCards = st.seenCards
    /\ communityCards = st.communityCards
    /\ pot = st.pot
    /\ currentBet = st.currentBet
    /\ lastRaiseSize = st.lastRaiseSize
    /\ currentTurnId = st.currentTurnId
    /\ dealerId = st.dealerId
    /\ smallBlindId = st.smallBlindId
    /\ bigBlindId = st.bigBlindId
    /\ lastShowdown = st.lastShowdown
    /\ nextHandTimer = st.nextHandTimer
    /\ timerArmed = st.timerArmed
    /\ timers = st.timers
    /\ sockets = st.sockets
    /\ error = st.error
    /\ crashed = st.crashed
    /\ audit = st.audit
    /\ handsDealt = st.handsDealt
    /\ delivered = IF st.sent = <<>>
                   THEN [socketId \in st.sockets |-> buildStateFor(st, socketId)]
                   ELSE st.sent[Len(st.sent)]

Starts(st) == TableIs(st) /\ hands = <<>> /\ verdict = NoVerdict

\* A first hand of 50-chip stacks: the dealer raises to 40 and both blinds
\* call, the dealer bets its last 10 on the flop and the blinds fold.  The
\* winner then leaves, and two players with 10 chips each wait for the timer:
\* the blinds of their hand take all they have.
FirstHandOf50 == Seated(MIN_STACK)

ShortFlop ==
    Replay(FirstHandOf50,
           << RaiseTo(1, 2 * BIG_BLIND), Act(2, "call"), Act(3, "call"),
              Act(2, "check"), Act(3, "check") >>)

ShortStacks ==
    Replay(ShortFlop,
           << RaiseTo(1, MIN_STACK - 2 * BIG_BLIND), Act(2, "fold"), Act(3, "fold"),
              Event("disconnect", 1, NoId) >>)

\* The same first hand when the big blind folds to the raise and the small
\* blind calls and folds to the bet on the flop: after the winner has left,
\* the dealer of the next hand holds 10 chips, the small blind, and the big
\* blind 30.
ShortCall ==
    Replay(FirstHandOf50,
           << RaiseTo(1, 2 * BIG_BLIND), Act(2, "call"), Act(3, "fold"), Act(2, "check") >>)

ShortDealer ==
    Replay(ShortCall,
           << RaiseTo(1, MIN_STACK - 2 * BIG_BLIND), Act(2, "fold"),
              Event("disconnect", 1, NoId) >>)

\* Two hands of 50-chip stacks.  The blinds of the first are stolen (50, 40
\* and 60); in the second seat 2 deals, pushes its 40 chips and loses them to
\* the big blind, seat 1, who calls and checks every street after seat 3
\* has folded: the dealer sits in the middle seat with no chips when the timer
\* of the third hand runs.
DealerBusted ==
    Replay(Replay(FirstHandOf50,
                  << Act(1, "fold"), Act(2, "fold"), Event("timer", NoId, 2),
                     RaiseTo(2, 2 * BIG_BLIND), Act(3, "fold") >>),
           << Act(1, "call"), Act(1, "check"), Act(1, "check"), Act(1, "check") >>)

Init ==
    \/ Starts(Lobby)
    \/ Starts(Between(BlindsStolen))
    \/ Starts(Between(DealerGaveUp))
    \/ Starts(RaisedTo101)
    \/ Starts(Between(ShortStacks))
    \/ Starts(Between(ShortDealer))
    \/ Starts(Between(DealerBusted))

Next ==
    \/ \E id \in sockets, payload \in NameInputs : Join(id, payload)
    \/ \E id \in sockets, amount \in StackInputs : SetStartingStack(id, amount)
    \/ \E id \in sockets, d \in 1..NumShuffles : StartGame(id, d)
    \/ \E id \in sockets : \E action \in ActionInputs(T, id) : Action(id, action)
    \/ \E id \in sockets : Disconnect(id)
    \/ \E d \in 1..NumShuffles : TimerFire(d)

Spec == Init /\ [][Next]_vars

(***************************************************************************)
(* A game that waits for its next hand, under the scheduling the program   *)
(* relies on: a timeout that is pending goes, it fires (TimerFire) or it   *)
(* is cleared.                                                             *)
(***************************************************************************)
SpecFair ==
    /\ Starts(Between(ShortDealer)) \/ Starts(Between(DealerBusted))
    /\ [][Next]_vars
    /\ WF_timers(Idle /\ timers > 0 /\ handsDealt < MaxHands /\ timers' = timers - 1)

\* Hands played from the second hand of three short stacks and from a deep
\* raise.  There is no clock on a turn; the player on turn is taken to act
\* or to leave in the end, so a hand in progress does not keep its turn,
\* its street and its being in progress for ever.
SpecTurns ==
    /\ Starts(Between(BlindsStolen)) \/ Starts(RaisedTo101)
    /\ [][Next]_vars
    /\ WF_<<currentTurnId, phase, handInProgress>>(
          /\ Idle /\ handInProgress
          /\ currentTurnId' \in 0..NumSockets
          /\ phase' \in {"preflop", "flop", "turn", "river", "showdown", "lobby"}
          /\ handInProgress' \in BOOLEAN)

\* Two hands of 420-chip stacks.  In the first the dealer raises to 100, the
\* small blind calls and gives up to a bet on the flop.  The second reaches
\* the flop with no raise: seat 3 (the small blind, first to act) holds 380
\* chips, seat 1 (the big blind) 520 and seat 2 (the dealer) 300.
FirstHandOf420 == Seated(21 * BIG_BLIND)

SmallBlindGaveUp ==
    Replay(FirstHandOf420,
           << RaiseTo(1, 5 * BIG_BLIND), Act(2, "call"), Act(3, "fold"),
              Act(2, "check"), RaiseTo(1, BIG_BLIND), Act(2, "fold") >>)

UnequalFlop ==
    Replay(SmallBlindGaveUp,
           << Event("timer", NoId, 1), Act(2, "call"), Act(3, "call"), Act(1, "check") >>)

InitDeep == Starts(Between(UnequalFlop))

NextDeep ==
    \/ \E id \in sockets : \E action \in ActionsWith(T, id, DeepRaiseInputs) :
            Action(id, action)
    \/ \E id \in sockets : Disconnect(id)

\* The rest of a hand played with deep stacks from the flop on.
SpecDeep == InitDeep /\ [][NextDeep]_vars

\* A lobby that more sockets have connected to than the table has seats in
\* the client's view: the events before the first action of a game.
CrowdSockets == 7

CrowdedLobby == [Lobby EXCEPT !.sockets = 1..CrowdSockets]

InitCrowd == Starts(CrowdedLobby)

NextCrowd ==
    \/ \E id \in sockets, payload \in NameInputs : Join(id, payload)
    \/ \E id \in sockets, amount \in StackInputs : SetStartingStack(id, amount)
    \/ \E id \in sockets, d \in 1..NumShuffles : StartGame(id, d)

SpecCrowd == InitCrowd /\ [][NextCrowd]_vars

(***************************************************************************)
(* The evaluator on its own: two hands of five cards are handed to         *)
(* evaluateFiveCardHand in every order of their cards, and the scores to   *)
(* compareScores.  The table stays the empty lobby.                        *)
(***************************************************************************)
\* For every category a hand of low ranks and one of high ranks, and the
\* straights from the wheel up; the hands of five ranks also in one suit.
HandInputs ==
    LET mixed == << "S", "H", "D", "C", "S" >>
        suited == << "H", "H", "H", "H", "H" >>
        handOf(ranks, suits) == TupleOf([i \in 1..Len(ranks) |-> << ranks[i], suits[i] >>])
        rankInputs ==
            { << "7", "2", "4", "3", "5" >>, << "9", "A", "Q", "K", "J" >>,
              << "2", "5", "2", "3", "4" >>, << "A", "K", "A", "Q", "J" >>,
              << "3", "2", "4", "2", "3" >>, << "K", "A", "Q", "A", "K" >>,
              << "2", "3", "2", "4", "2" >>, << "A", "K", "A", "A", "Q" >>,
              << "3", "A", "5", "2", "4" >>, << "6", "2", "4", "3", "5" >>,
              << "T", "A", "Q", "K", "J" >>,
              << "2", "3", "2", "3", "2" >>, << "A", "K", "A", "K", "A" >>,
              << "2", "2", "3", "2", "2" >>, << "A", "A", "A", "K", "A" >> }
    IN  { handOf(ranks, mixed) : ranks \in rankInputs }
        \cup { handOf(ranks, suited) :
                 ranks \in { r \in rankInputs : Cardinality({r[i] : i \in 1..5}) = 5 } }

InitHands ==
    /\ TableIs(Lobby)
    /\ hands \in HandInputs \X HandInputs
    /\ verdict = NoVerdict

\* The two hands are evaluated and their scores compared.
Evaluate ==
    /\ verdict = NoVerdict
    /\ verdict' = [left |-> evaluateFiveCardHand(hands[1]),
                   right |-> evaluateFiveCardHand(hands[2]),
                   order |-> compareScores(evaluateFiveCardHand(hands[1]),
                                           evaluateFiveCardHand(hands[2]))]
    /\ UNCHANGED << hands, players, startingStack, gameStarted, handInProgress,
                    handNumber, phase, deck, burnCards, seenCards, communityCards,
                    pot, currentBet, lastRaiseSize, currentTurnId, dealerId,
                    smallBlindId, bigBlindId, lastShowdown, nextHandTimer,
                    timerArmed, timers, sockets, error, crashed, audit, handsDealt,
                    delivered >>

\* The cards of the first hand come in another order: the first card goes
\* last, or the first two change places.
Reorder ==
    /\ hands' \in { << Tail(hands[1]) \o << Head(hands[1]) >>, hands[2] >>,
                    << << hands[1][2], hands[1][1] >> \o SubSeq(hands[1], 3, 5), hands[2] >> }
    /\ verdict' = NoVerdict
    /\ UNCHANGED << players, startingStack, gameStarted, handInProgress,
                    handNumber, phase, deck, burnCards, seenCards, communityCards,
                    pot, currentBet, lastRaiseSize, currentTurnId, dealerId,
                    smallBlindId, bigBlindId, lastShowdown, nextHandTimer,
                    timerArmed, timers, sockets, error, crashed, audit, handsDealt,
                    delivered >>

NextHands ==
    \/ Evaluate
    \/ Reorder

SpecHands == InitHands /\ [][NextHands]_vars

\* Heads-up with the fifth deck: seat 1 (dealer and small blind) calls, the
\* big blind checks, and both check the flop, the turn and the river.
WheelFlop ==
    Replay(Lobby, << Event("join", 1, GoodName), Event("join", 2, GoodName),
                     Event("startGame", 1, 5), Act(1, "call"), Act(2, "check") >>)
WheelShowdown ==
    Replay(WheelFlop, << Act(2, "check"), Act(1, "check"), Act(2, "check"), Act(1, "check"),
                         Act(2, "check"), Act(1, "check") >>)

(***************************************************************************)
(* The claims.                                                             *)
(***************************************************************************)
SumOf(st, f(_)) == SumSeq(MapPlayers(st, f))

\* C1: at every showdown the amounts paid out sum to the totalContribution
\* of all players, folded contributors included.
C1_PayoutConservation == audit.paid = audit.contributed

\* C2: after every handled event the pot is the sum of totalContribution
\* over the seated players.
C2_PotIsContributions == pot = SumOf(T, LAMBDA p : p.totalContribution)

NotReopened == "Betting is not reopened. You may only call or fold."

\* On the flop P1 (seat 3) has bet 100, P2 (seat 1) has raised to 250 and
\* P3 (seat 2) is all-in for 300.
UnderRaisedTo300 ==
    /\ handInProgress /\ phase = "flop" /\ Len(players) = 3
    /\ currentBet = 300 /\ lastRaiseSize = 150
    /\ players[1].betThisRound = 250 /\ isPlayerActionable(players[1])
    /\ players[2].betThisRound = 300 /\ players[2].allIn
    /\ isPlayerActionable(players[3])

\* ... and P1 is on turn.
P1FacesUnderRaise ==
    UnderRaisedTo300 /\ currentTurnId = 3 /\ players[3].betThisRound = 100

\* ... P1 has called, and P2 is on turn.
P2FacesUnderRaise ==
    UnderRaisedTo300 /\ currentTurnId = 1 /\ players[3].betThisRound = 300

\* Raise targets tried there: below, at and above what anyone holds.
ProbeTargets == { Num(n) : n \in {0, 100, 250, 300, 301, 450, 1000} }

RaiseBy(id, a) == Handle(Fresh, Event("action", id, [type |-> "raise", amount |-> a]))

\* C3 as claimed: after P1 bets 100, P2 raises to 250 and P3 goes all-in for
\* 300, P1 on turn is offered call and fold only, and a raise by P1 is
\* rejected with the "not reopened" error and changes nothing else.
C3_P1MayOnlyCallOrFold ==
    (P1FacesUnderRaise /\ Idle) =>
        /\ availableActions(T, 3).canFold /\ availableActions(T, 3).canCall
        /\ ~availableActions(T, 3).canCheck /\ ~availableActions(T, 3).canRaise
        /\ \A a \in ProbeTargets : RaiseBy(3, a) = [Fresh EXCEPT !.error = NotReopened]

\* C3 as amended: in that sequence P1, whose acted flag P2's full raise has
\* reset, is offered call, fold and (holding more than 300) raise; the
\* under-raise bars P2: once P1 has called, P2 on turn is offered call and
\* fold only, and a raise by P2 is rejected with the "not reopened" error and
\* changes nothing else.
C3_P2MayOnlyCallOrFold ==
    /\ (P1FacesUnderRaise /\ Idle) =>
          /\ players[1].acted /\ ~players[3].acted
          /\ availableActions(T, 3).canFold /\ availableActions(T, 3).canCall
          /\ ~availableActions(T, 3).canCheck
          /\ availableActions(T, 3).canRaise
                = (players[3].betThisRound + players[3].chips > 300)
    /\ (P2FacesUnderRaise /\ Idle) =>
          /\ players[1].acted
          /\ canAct(T, 1)
          /\ availableActions(T, 1).canFold /\ availableActions(T, 1).canCall
          /\ ~availableActions(T, 1).canCheck /\ ~availableActions(T, 1).canRaise
          /\ \A a \in ProbeTargets : RaiseBy(1, a) = [Fresh EXCEPT !.error = NotReopened]

\* P2, holding 270 chips more, has tried to raise and has been refused.
C3_Witness == P2FacesUnderRaise /\ error = NotReopened /\ players[1].chips = 270

(***************************************************************************)
(* The claims about handleAction look at the two states an action leaves:  *)
(* the one its branch of handleAction hands to advanceAfterAction, and the *)
(* one the event ends in.                                                  *)
(***************************************************************************)
\* The seat on turn (0: nobody).
OnTurn == findPlayer(T, currentTurnId)
InHandSeats(st) == {i \in 1..Len(st.players) : st.players[i].inHand /\ ~st.players[i].folded}
ActionableSeats(st) ==
    {i \in 1..Len(st.players) :
        st.players[i].inHand /\ ~st.players[i].folded /\ ~st.players[i].allIn}
MaxTotal(i) == players[i].betThisRound + players[i].chips
ToCall(i) == IF currentBet > players[i].betThisRound THEN currentBet - players[i].betThisRound ELSE 0
MinRaise == IF currentBet = 0 THEN BIG_BLIND ELSE currentBet + lastRaiseSize

\* A betting round is going on and the seat on turn may act.
MayAct == handInProgress /\ OnTurn # 0 /\ OnTurn \in ActionableSeats(T)
Betting == Idle /\ MayAct

\* The state the raise branch leaves, and the one the event ends in.
Raised(a) == handleAction(Fresh, currentTurnId, [type |-> "raise", amount |-> a])
Acted(type) == Handle(Fresh, Event("action", currentTurnId, [type |-> type, amount |-> Num(0)]))
Accepted(st) == st.error = NoError

\* Raise targets around every bound the raise branch tests.
Targets(i) ==
    { Num(currentBet), Num(currentBet + 1), Num(MinRaise - 1), Num(MinRaise),
      Num(MaxTotal(i) - 1), Num(MaxTotal(i)), Num(MaxTotal(i) + 1), NotANumber }

\* C4: an accepted all-in raise by less than lastRaiseSize leaves
\* lastRaiseSize and the acted flag of every other player who had acted as
\* they were (also once the turn has passed, while the street goes on); a
\* player who has acted and is on turn facing a bet is refused a raise and
\* granted a call or a fold.
C4_UnderRaiseKeepsActed ==
    Betting =>
        /\ (Accepted(Raised(Num(MaxTotal(OnTurn))))
              /\ MaxTotal(OnTurn) - currentBet < lastRaiseSize) =>
              /\ Raised(Num(MaxTotal(OnTurn))).lastRaiseSize = lastRaiseSize
              /\ \A j \in 1..Len(players) :
                    (j # OnTurn /\ players[j].acted) =>
                        Raised(Num(MaxTotal(OnTurn))).players[j].acted
              /\ LET after == RunCalls(Raised(Num(MaxTotal(OnTurn))))
                 IN (after.handInProgress /\ after.phase = phase) =>
                       /\ after.lastRaiseSize = lastRaiseSize
                       /\ \A j \in 1..Len(players) :
                             (j # OnTurn /\ players[j].acted) => after.players[j].acted
        /\ (players[OnTurn].acted /\ ToCall(OnTurn) > 0) =>
              /\ \A a \in Targets(OnTurn) \ {NotANumber} :
                    RunCalls(Raised(a)) = [Fresh EXCEPT !.error = NotReopened]
              /\ Accepted(Acted("call"))
              /\ Accepted(Acted("fold"))

\* Seat k has gone all-in for less than a full raise over the bet that seat
\* i had called, and seat i, on turn again, has been refused a raise.
C4_Witness ==
    /\ MayAct /\ error = NotReopened
    /\ players[OnTurn].acted /\ ToCall(OnTurn) > 0 /\ ToCall(OnTurn) < lastRaiseSize
    /\ \E k \in InHandSeats(T) : players[k].allIn /\ players[k].betThisRound = currentBet

\* C5: an accepted raise to N makes currentBet N and sets the raiser's acted
\* flag; when N - currentBet is at least lastRaiseSize it becomes the new
\* lastRaiseSize and clears the acted flag of every other actionable player,
\* and otherwise lastRaiseSize and the other players' flags stay.
C5_FullRaiseReopens ==
    Betting =>
        \A a \in Targets(OnTurn) :
            Accepted(Raised(a)) =>
                /\ Raised(a).currentBet = a.n
                /\ Raised(a).players[OnTurn].acted
                /\ IF a.n - currentBet >= lastRaiseSize
                   THEN /\ Raised(a).lastRaiseSize = a.n - currentBet
                        /\ \A j \in ActionableSeats(T) \ {OnTurn} :
                              ~Raised(a).players[j].acted
                   ELSE /\ Raised(a).lastRaiseSize = lastRaiseSize
                        /\ \A j \in 1..Len(players) :
                              j # OnTurn => Raised(a).players[j].acted = players[j].acted

\* A raise to 60 over the big blind has cleared the flag of a player who had
\* called the big blind.
C5_Witness ==
    /\ Betting /\ phase = "preflop" /\ currentBet = 3 * BIG_BLIND
    /\ lastRaiseSize = 2 * BIG_BLIND
    /\ players[OnTurn].id # bigBlindId
    /\ players[OnTurn].betThisRound = BIG_BLIND /\ ~players[OnTurn].acted

\* The street that follows a street.
NextPhase(p) ==
    CASE p = "preflop" -> "flop" [] p = "flop" -> "turn" [] p = "turn" -> "river"
      [] OTHER -> "showdown"

\* Every actionable player has acted and has matched the current bet.
RoundCompleteIn(st) ==
    \A j \in ActionableSeats(st) :
        st.players[j].acted /\ st.players[j].betThisRound = st.currentBet

\* All that an event may change when only the turn passes.
Passing(st) ==
    [st EXCEPT !.currentTurnId = NoId, !.call = "return", !.lastActorId = NoId,
               !.sent = <<>>]

\* C6: an accepted action that leaves two contenders or more ends the street
\* exactly when every actionable player has acted and matched the current
\* bet: then the next street is dealt to two contenders or more, or the hand
\* ends in a showdown; otherwise nothing changes but the turn.
C6_StreetAdvancesWhenComplete ==
    Betting =>
        \A action \in ActionInputs(T, currentTurnId) :
            LET mid == handleAction(Fresh, currentTurnId, action)
                after == RunCalls(mid)
            IN (Accepted(mid) /\ Cardinality(InHandSeats(mid)) >= 2) =>
                  IF RoundCompleteIn(mid)
                  THEN \/ /\ after.handInProgress
                          /\ after.phase = NextPhase(phase)
                          /\ Len(after.communityCards) > Len(communityCards)
                          /\ Cardinality(InHandSeats(after)) >= 2
                       \/ /\ ~after.handInProgress
                          /\ after.lastShowdown.type = "showdown"
                          /\ after.phase # phase
                  ELSE /\ after.phase = phase
                       /\ after.communityCards = communityCards
                       /\ after.currentTurnId # NoId
                       /\ Passing(after) = Passing(mid)

\* A call has closed the first round among three players: the flop is out
\* and all three are still in.
C6_Witness ==
    /\ handInProgress /\ phase = "flop" /\ Len(communityCards) = 3
    /\ Cardinality(InHandSeats(T)) = 3 /\ currentTurnId # NoId

\* C7: a raise to N by the player on turn is accepted exactly when N is an
\* integer, the player has not acted or has nothing to call, N is above the
\* current bet and within the player's chips, and N is at least minRaiseTo
\* or all the player has.
C7_RaiseAcceptedIff ==
    Betting =>
        \A a \in Targets(OnTurn) \cup RaiseInputs :
            Accepted(Raised(a)) <=>
                /\ a.isInteger
                /\ ~players[OnTurn].acted \/ ToCall(OnTurn) = 0
                /\ a.n > currentBet
                /\ a.n <= MaxTotal(OnTurn)
                /\ a.n >= MinRaise \/ a.n = MaxTotal(OnTurn)

\* A raise between the current bet and minRaiseTo, by a player holding more,
\* has been refused.
C7_Witness ==
    /\ MayAct /\ error = "Minimum raise is to minRaiseTo, unless you are all-in."
    /\ currentBet < 3 * BIG_BLIND /\ 3 * BIG_BLIND < MinRaise
    /\ 3 * BIG_BLIND < MaxTotal(OnTurn)

\* A betting round is going on and is not complete.
RoundOpen == handInProgress /\ ~RoundCompleteIn(T)

\* C8 as claimed: during a betting round that is not complete, currentBet is
\* the highest betThisRound among the players still in the hand.
C8_CurrentBetIsMaxBet ==
    RoundOpen =>
        /\ \A i \in InHandSeats(T) : players[i].betThisRound <= currentBet
        /\ \E i \in InHandSeats(T) : players[i].betThisRound = currentBet

\* The big blind of a preflop round nobody has raised was posted short.
ShortBigBlind ==
    /\ phase = "preflop" /\ currentBet = BIG_BLIND
    /\ \E i \in InHandSeats(T) :
          /\ players[i].id = bigBlindId
          /\ players[i].allIn /\ players[i].betThisRound < BIG_BLIND

\* The player whose bet the others face has left the hand by disconnecting.
TopBettorLeft ==
    \E i \in 1..Len(players) :
        /\ players[i].disconnected /\ players[i].folded
        /\ players[i].betThisRound = currentBet

\* C8 as amended: during a betting round that is not complete, currentBet is
\* at least the betThisRound of every player still in the hand, and it is the
\* betThisRound of one of them unless the big blind was posted short or the
\* player who made the highest bet has disconnected.
C8_CurrentBetCoversBets ==
    RoundOpen =>
        /\ \A i \in InHandSeats(T) : players[i].betThisRound <= currentBet
        /\ \/ \E i \in InHandSeats(T) : players[i].betThisRound = currentBet
           \/ ShortBigBlind
           \/ TopBettorLeft

\* The big blind has disconnected before anyone has matched it.
C8_Witness ==
    /\ RoundOpen /\ TopBettorLeft /\ currentBet > 0
    /\ \A i \in InHandSeats(T) : players[i].betThisRound < currentBet

\* A hand has just been dealt and its blinds posted.
BlindsPosted == handsDealt' = handsDealt + 1 /\ handInProgress' /\ phase' = "preflop"

BetOf(st, id) == st.players[findPlayer(st, id)].betThisRound

\* C9: once the blinds are posted, currentBet is the highest of the big blind
\* and the two amounts posted, and lastRaiseSize is the big blind; a big
\* blind holding 15 chips leaves currentBet at 20 and minRaiseTo at 40.
C9_BlindsSetCurrentBet ==
    [][BlindsPosted =>
         /\ currentBet' = Max2(BIG_BLIND,
                               Max2(BetOf(T', smallBlindId'), BetOf(T', bigBlindId')))
         /\ lastRaiseSize' = BIG_BLIND
         /\ \A i \in 1..Len(players) :
               (players[i].id = bigBlindId' /\ players[i].chips = 15) =>
                   /\ BetOf(T', bigBlindId') = 15
                   /\ currentBet' = 20
                   /\ getMinRaiseTo(T') = 40]_vars

\* The big blind has posted its 15 chips.
C9_Witness ==
    /\ handInProgress /\ phase = "preflop" /\ currentBet = BIG_BLIND
    /\ \E i \in InHandSeats(T) :
          /\ players[i].id = bigBlindId /\ players[i].allIn
          /\ players[i].betThisRound = 15 /\ players[i].chips = 0
    /\ \A i \in 1..Len(players) : players[i].id # bigBlindId => ~players[i].acted

Viewers == 1..NumSockets

Flags(id) ==
    << availableActions(T, id).canFold, availableActions(T, id).canCheck,
       availableActions(T, id).canCall, availableActions(T, id).canRaise >>

NoFlag(id) == Flags(id) = << FALSE, FALSE, FALSE, FALSE >>

\* C10 as claimed: a viewer who can act is offered exactly one of fold,
\* check, call and raise, and a viewer who cannot is offered none.
C10_ExactlyOneAction ==
    \A id \in Viewers :
        IF canAct(T, id)
        THEN Cardinality({k \in 1..4 : Flags(id)[k]}) = 1
        ELSE NoFlag(id)

\* C10 as amended: a viewer who can act is offered fold and exactly one of
\* check and call (and raise besides when it is open), each offer being an
\* action the server accepts; a viewer who cannot act is offered none.
C10_FoldAndCheckOrCall ==
    \A id \in Viewers :
        IF canAct(T, id)
        THEN /\ availableActions(T, id).canFold
             /\ availableActions(T, id).canCheck # availableActions(T, id).canCall
             /\ Idle =>
                  /\ Accepted(Acted("fold"))
                  /\ availableActions(T, id).canCheck = Accepted(Acted("check"))
                  /\ availableActions(T, id).canCall = Accepted(Acted("call"))
                  /\ availableActions(T, id).canRaise
                        = Accepted(Raised(Num(availableActions(T, id).maxRaiseTo)))
        ELSE NoFlag(id)

\* A viewer on turn is offered fold, call and raise.
C10_Witness ==
    \E id \in Viewers :
        canAct(T, id) /\ Flags(id) = << TRUE, FALSE, TRUE, TRUE >>

\* C11: after every handled event every seated player has chips >= 0 and
\* betThisRound <= totalContribution, is folded only when not inHand, and is
\* all-in only with no chips left.
C11_PlayerFieldsConsistent ==
    \A i \in 1..Len(players) :
        /\ players[i].chips >= 0
        /\ players[i].betThisRound <= players[i].totalContribution
        /\ players[i].folded => ~players[i].inHand
        /\ players[i].allIn => players[i].chips = 0

\* On a later street one player has folded after paying in, one is all-in
\* and one has bet less in this round than in the hand.
C11_Witness ==
    /\ handInProgress /\ phase # "preflop"
    /\ \E i, j, k \in 1..Len(players) :
          /\ players[i].folded /\ players[i].totalContribution > 0
          /\ players[j].allIn /\ players[j].inHand
          /\ players[k].betThisRound > 0
          /\ players[k].betThisRound < players[k].totalContribution

\* What a player holds and has paid into the hand.
Stake(p) == p.chips + p.totalContribution

\* The chips of the player `id` before the step that deals a hand: the timer
\* deals to the stacks as they are, startGame to fresh starting stacks.
ChipsAtDeal(id) ==
    IF gameStarted THEN players[findPlayer(T, id)].chips ELSE startingStack

\* C12: from the start of a hand until its payout, chips + totalContribution
\* of every player stays what the player's chips were when the hand started:
\* the blinds leave it so, every event that leaves the hand in progress
\* keeps it (and keeps the seats), and where an event ends the hand, every
\* action the player on turn could send keeps it up to the payout.
C12_StakeConserved ==
    [][/\ BlindsPosted =>
             \A i \in 1..Len(players') : Stake(players'[i]) = ChipsAtDeal(players'[i].id)
       /\ (handInProgress /\ handInProgress' /\ handNumber' = handNumber) =>
             /\ Len(players') = Len(players)
             /\ \A i \in 1..Len(players) :
                   /\ players'[i].id = players[i].id
                   /\ Stake(players'[i]) = Stake(players[i])
       /\ (Betting /\ ~handInProgress') =>
             \A action \in ActionsWith(T, currentTurnId, Targets(OnTurn)) :
                 \A i \in 1..Len(players) :
                     Stake(handleAction(Fresh, currentTurnId, action).players[i])
                        = Stake(players[i])]_vars

\* On the flop of a hand dealt to 55-chip stacks, one player has paid 60 and
\* is all-in, one has folded after the blind and one still holds chips.
C12_Witness ==
    /\ handInProgress /\ phase = "flop" /\ handsDealt = 1
    /\ \E i, j, k \in 1..Len(players) :
          /\ players[i].totalContribution > 2 * BIG_BLIND /\ players[i].chips = 0
          /\ players[j].folded /\ players[j].totalContribution > 0
          /\ players[k].chips > 0 /\ Stake(players[k]) = MIN_STACK + 5

CardsOf(cards) == {cards[i] : i \in 1..Len(cards)}
HoleCardsOf(st) == UNION {CardsOf(st.players[i].holeCards) : i \in 1..Len(st.players)}
HoleCardCount(st) == SumOf(st, LAMBDA p : Len(p.holeCards))

\* C13 as claimed: no card occurs twice across deck, burnCards and seenCards
\* taken together, and seenCards is the set of the cards in a player's hole
\* cards, in burnCards or in communityCards.
C13_NoCardTwiceSeenIsDealt ==
    /\ Cardinality(CardsOf(deck) \cup CardsOf(burnCards) \cup seenCards)
          = Len(deck) + Len(burnCards) + Cardinality(seenCards)
    /\ seenCards = HoleCardsOf(T) \cup CardsOf(burnCards) \cup CardsOf(communityCards)

\* C13 as amended: no card occurs twice in the deck or twice in burnCards,
\* and none is both in the deck and in seenCards; the burned cards are seen
\* cards.  While a hand is in progress seenCards is the set of the cards in
\* a player's hole cards, in burnCards or in communityCards, none of them
\* dealt twice; when no hand is in progress deck, burnCards, seenCards and
\* every player's hole cards are empty, while communityCards keeps the board
\* of the last hand.
C13_DeckApartFromSeen ==
    /\ Cardinality(CardsOf(deck)) = Len(deck)
    /\ Cardinality(CardsOf(burnCards)) = Len(burnCards)
    /\ CardsOf(deck) \cap seenCards = {}
    /\ CardsOf(burnCards) \subseteq seenCards
    /\ handInProgress =>
          /\ seenCards = HoleCardsOf(T) \cup CardsOf(burnCards) \cup CardsOf(communityCards)
          /\ Cardinality(seenCards)
                = HoleCardCount(T) + Len(burnCards) + Len(communityCards)
          /\ Len(deck) + Cardinality(seenCards) = FULL_DECK_SIZE
    /\ ~handInProgress =>
          /\ deck = <<>> /\ burnCards = <<>> /\ seenCards = {}
          /\ HoleCardsOf(T) = {}

\* The river is out, three cards are burned, and a player who has folded
\* still holds two cards.
C13_Witness ==
    /\ handInProgress /\ phase = "river" /\ Len(burnCards) = 3
    /\ Len(communityCards) = 5
    /\ \E i \in 1..Len(players) : players[i].folded /\ Len(players[i].holeCards) = 2

\* C14: the seat list never holds more than six players, no more than six
\* are dealt into a hand, and drawCard never fails.
C14_AtMostSixSeated ==
    /\ Len(players) <= 6
    /\ Cardinality(InHandSeats(T)) <= 6
    /\ ~crashed

\* The events a client may send in the current state: every event type from
\* every socket, the raises with targets around every bound.
EventInputs ==
    { Event("join", id, payload) : id \in sockets, payload \in NameInputs }
    \cup { Event("setStartingStack", id, amount) : id \in sockets, amount \in StackInputs }
    \cup { Event("startGame", id, d) : id \in sockets, d \in 1..NumShuffles }
    \cup UNION { { Event("action", id, a) :
                     a \in ActionsWith(T, id,
                              RaiseInputs \cup (IF OnTurn = 0 THEN {} ELSE Targets(OnTurn))) } :
                 id \in sockets }

IsAdmin(id) == \E i \in 1..Len(players) : players[i].id = id /\ players[i].isAdmin

\* The events the claim lists as answered with an errorMessage (the illegal
\* raise amounts are those of C7).
Listed(e) ==
    \/ e.type = "join" /\ (findPlayer(T, e.id) # 0 \/ gameStarted \/ sanitizeName(e.payload) = <<>>)
    \/ e.type \in {"setStartingStack", "startGame"} /\ (~IsAdmin(e.id) \/ gameStarted)
    \/ /\ e.type = "action" /\ findPlayer(T, e.id) # 0
       /\ \/ ~handInProgress \/ currentTurnId # e.id
          \/ e.payload.type = "check" /\ ToCall(findPlayer(T, e.id)) > 0
          \/ e.payload.type = "call" /\ ToCall(findPlayer(T, e.id)) = 0
          \/ e.payload.type = "raise" /\ ~e.payload.amount.isInteger
          \/ e.payload.type = "raise" /\ e.payload.amount.n <= currentBet
          \/ e.payload.type = "bet"

\* C15: an event answered with an errorMessage leaves the whole table state
\* as it was and appends nothing to the log, and the events the claim lists
\* are answered so.
C15_RejectedEventChangesNothing ==
    Idle =>
        \A e \in EventInputs :
            /\ Handle(Fresh, e).error # NoError =>
                  [Handle(Fresh, e) EXCEPT !.error = NoError, !.d = Fresh.d] = Fresh
            /\ Listed(e) => Handle(Fresh, e).error # NoError

\* A check against a bet has been refused in the middle of a hand.
C15_Witness ==
    /\ error = "You cannot check when facing a bet."
    /\ handInProgress /\ OnTurn # 0 /\ ToCall(OnTurn) > 0 /\ pot > 0

\* The state handleDisconnect leaves for socket `id`, before the calls it
\* ends with, and the state an action of the player on turn leaves.
Left(id) == handleDisconnect([Fresh EXCEPT !.sockets = @ \ {id}], id)
Sent(action) == handleAction(Fresh, currentTurnId, action)

\* The one seat left in the hand of st (0: not exactly one).
LastContender(st) ==
    IF Cardinality(InHandSeats(st)) = 1 THEN CHOOSE i \in InHandSeats(st) : TRUE ELSE 0

\* What the claim says of a fold or disconnect that has left `mid`, when one
\* contender is left: the winner is paid the whole pot before the hand is
\* finished, no hand is evaluated, and the event ends with the hand over and
\* the winner, if still connected, holding the pot.
WonByFold(mid) ==
    LastContender(mid) # 0 =>
        /\ advanceAfterAction(mid).call = "resolveHandByFold"
        /\ resolveHandByFold(mid).call = "finishHand"
        /\ resolveHandByFold(mid).players[LastContender(mid)].chips
              = players[LastContender(mid)].chips + pot
        /\ \A i \in 1..Len(players) :
              i # LastContender(mid) =>
                  resolveHandByFold(mid).players[i].chips = mid.players[i].chips
        /\ resolveHandByFold(mid).lastShowdown.type = "fold"
        /\ resolveHandByFold(mid).lastShowdown.payouts
              = << [id |-> players[LastContender(mid)].id, amount |-> pot] >>
        /\ resolveHandByFold(mid).audit = audit
        /\ ~RunCalls(mid).handInProgress
        /\ RunCalls(mid).lastShowdown = resolveHandByFold(mid).lastShowdown
        /\ RunCalls(mid).communityCards = communityCards
        /\ \A i \in 1..Len(RunCalls(mid).players) :
              RunCalls(mid).players[i].id = players[LastContender(mid)].id =>
                  RunCalls(mid).players[i].chips = players[LastContender(mid)].chips + pot

\* C16: whenever a fold or a disconnect leaves exactly one player in the
\* hand, that player's chips grow by the whole pot in the same event, no
\* hand is evaluated and the hand is finished.
C16_LastContenderTakesPot ==
    (Idle /\ handInProgress) =>
        /\ MayAct => \A type \in {"fold", "FOLD"} :
                        WonByFold(Sent([type |-> type, amount |-> Num(0)]))
        /\ \A id \in sockets : findPlayer(T, id) # 0 => WonByFold(Left(id))

\* After a socket has disconnected, a hand has ended on the flop without a
\* showdown and its whole pot has gone to the player who was left.
C16_Witness ==
    /\ handsDealt = 1 /\ ~handInProgress /\ Len(communityCards) = 3
    /\ lastShowdown.type = "fold" /\ audit = NoAudit
    /\ Cardinality(sockets) < NumSockets /\ Len(players) = 2
    /\ lastShowdown.payouts[1].amount = pot /\ pot > 3 * BIG_BLIND

(***************************************************************************)
(* The claims about the payout look at the record of the last showdown:    *)
(* what every seat had contributed, its score (NotInMap for a seat that    *)
(* had folded or was not dealt in) and what it was paid.                   *)
(***************************************************************************)
ShowdownHeld == audit # NoAudit
Seats == 1..Len(audit.contributions)
Levels == {audit.contributions[q] : q \in Seats} \ {0}
LevelBelow(level) ==
    IF \E l \in Levels : l < level
    THEN CHOOSE l \in Levels : l < level /\ \A m \in Levels : m < level => m <= l
    ELSE 0
\* The chips of a contribution level, and the seats they may go to.
PotAt(level) ==
    (level - LevelBelow(level)) * Cardinality({q \in Seats : audit.contributions[q] >= level})
EligibleAt(level) ==
    {p \in Seats : audit.contributions[p] >= level /\ audit.scores[p] # NotInMap}
BestAt(level) ==
    {p \in EligibleAt(level) :
        \A q \in EligibleAt(level) : compareScores(audit.scores[q], audit.scores[p]) <= 0}
\* The whole chips of a share, and one more for the odd chips.
ShareAt(level) == PotAt(level) \div Cardinality(BestAt(level))
OddAt(level) == PotAt(level) % Cardinality(BestAt(level))
SumOverLevels(share(_)) ==
    SumSeq(TupleOf([k \in 1..Cardinality(Levels) |-> share(SortAsc(Levels)[k])]))
Covered(p) ==
    SumSeq(TupleOf([q \in Seats |-> Min2(audit.contributions[q], audit.contributions[p])]))

\* C17: at a showdown the chips of a contribution level go only to the
\* contenders who have reached the level and hold the best hand among them:
\* a seat is paid, for every level it wins, a share of the level's chips (by
\* the number of winners, rounded down or up), the levels with a winner are
\* paid out in full, a folded player gets nothing and a contender p at most
\* the sum of min(contribution[q], contribution[p]) over the players q; with
\* contributions 101, 100, 100 and three tied hands the payouts are 101,
\* 100 and 100.
C17_LevelsGoToBestContenders ==
    ShowdownHeld =>
        /\ \A p \in Seats :
              /\ audit.payouts[p]
                    >= SumOverLevels(LAMBDA l : IF p \in BestAt(l) THEN ShareAt(l) ELSE 0)
              /\ audit.payouts[p]
                    <= SumOverLevels(LAMBDA l : IF p \notin BestAt(l) THEN 0
                                                ELSE IF OddAt(l) = 0 THEN ShareAt(l)
                                                ELSE ShareAt(l) + 1)
              /\ audit.scores[p] = NotInMap => audit.payouts[p] = 0
              /\ audit.payouts[p] <= Covered(p)
        /\ SumSeq(audit.payouts)
              = SumOverLevels(LAMBDA l : IF EligibleAt(l) = {} THEN 0 ELSE PotAt(l))
        /\ (/\ audit.contributions = << 5 * BIG_BLIND + 1, 5 * BIG_BLIND, 5 * BIG_BLIND >>
            /\ BestAt(5 * BIG_BLIND) = Seats) =>
              audit.payouts = << 5 * BIG_BLIND + 1, 5 * BIG_BLIND, 5 * BIG_BLIND >>

\* The showdown of the example: 101, 100 and 100 contributed, three hands
\* tied, and 101, 100 and 100 paid back.
C17_Witness ==
    /\ ShowdownHeld /\ audit.contributions = << 5 * BIG_BLIND + 1, 5 * BIG_BLIND, 5 * BIG_BLIND >>
    /\ BestAt(5 * BIG_BLIND) = Seats
    /\ audit.payouts = audit.contributions

\* The place of seat p in the ring after the dealer, who is last.
PlaceAfterDealer(p) == ((p - audit.dealer - 1) % Len(audit.contributions)) + 1
\* Whether p is among the first `odd` of the winners in that order.
GetsOddChip(p, winners, odd) ==
    Cardinality({w \in winners : PlaceAfterDealer(w) <= PlaceAfterDealer(p)}) <= odd

\* C18: when the chips of a level are split among k tied winners, each of
\* them gets the k-th part rounded down, and the first (chips mod k) of them
\* in ring order after the dealer (the dealer last) get one chip more: a
\* seat's payout is the sum of that over the levels it wins.
C18_OddChipsAfterDealer ==
    ShowdownHeld =>
        \A p \in Seats :
            audit.payouts[p]
               = SumOverLevels(LAMBDA l :
                    IF p \notin BestAt(l) THEN 0
                    ELSE ShareAt(l) + (IF GetsOddChip(p, BestAt(l), OddAt(l)) THEN 1 ELSE 0))

\* Two tied winners have split an odd number of chips, and the first of them
\* after the dealer is not the first of them in the seat list.
C18_Witness ==
    /\ ShowdownHeld
    /\ \E l \in Levels :
          /\ Cardinality(BestAt(l)) = 2 /\ OddAt(l) = 1
          /\ \E p, q \in BestAt(l) : p < q /\ PlaceAfterDealer(q) < PlaceAfterDealer(p)

\* The seat of the viewer, 0 for a socket that has not joined.
SeatOf(viewerId) == findPlayer(Fresh, viewerId)
\* The cards a message shows outside yourCards.
ShownHands(message) ==
    {message.lastShowdown.hands[k] : k \in 1..Len(message.lastShowdown.hands)}

\* C19: in the state message built for any socket V, no field holds hole
\* cards of a player other than V (the rows of players carry no cards, the
\* rows of lastShowdown.hands of other players carry no cards, the board
\* holds no hole card), and V's own hole cards are in yourCards only, and
\* only while V is in the hand.
C19_OnlyOwnHoleCardsSent ==
    \A viewerId \in sockets :
        /\ \A k \in 1..Len(buildStateFor(Fresh, viewerId).players) :
              "holeCards" \notin DOMAIN buildStateFor(Fresh, viewerId).players[k]
        /\ CardsOf(buildStateFor(Fresh, viewerId).communityCards) \cap HoleCardsOf(Fresh) = {}
        /\ \A row \in ShownHands(buildStateFor(Fresh, viewerId)) : row.cards = <<>>
        /\ buildStateFor(Fresh, viewerId).yourCards # <<>> =>
              /\ SeatOf(viewerId) # 0 /\ players[SeatOf(viewerId)].inHand
              /\ buildStateFor(Fresh, viewerId).yourCards = players[SeatOf(viewerId)].holeCards

\* The actionable seat that follows seat i in the ring of st, 0 for none.
NextActionableAfter(st, i) ==
    IF ActionableSeats(st) \ {i} = {} THEN 0
    ELSE CHOOSE j \in ActionableSeats(st) \ {i} :
            \A k \in ActionableSeats(st) \ {i} :
                (j - i - 1) % Len(st.players) <= (k - i - 1) % Len(st.players)

\* What the claim says of the disconnect of socket id, seated in seat i and
\* in the hand: `mid` is the state handleDisconnect leaves, RunCalls(mid) the
\* state the event ends in.
GoneFromHand(id, i, mid) ==
    IF players[i].allIn
    THEN /\ mid.players[i] = [players[i] EXCEPT !.disconnected = TRUE, !.isAdmin = FALSE]
         /\ \E k \in 1..Len(Contenders(mid)) : Contenders(mid)[k] = i
         /\ RunCalls(mid).handInProgress
         /\ RunCalls(mid).players[i].inHand /\ ~RunCalls(mid).players[i].folded
         /\ RunCalls(mid).currentTurnId = currentTurnId
         /\ RunCalls(mid).pot = pot /\ RunCalls(mid).phase = phase
    ELSE /\ mid.players[i].folded /\ ~mid.players[i].inHand /\ mid.players[i].disconnected
         /\ mid.players[i].totalContribution = players[i].totalContribution
         /\ currentTurnId = id =>
               IF countRemainingInHand(mid) <= 1
               THEN ~RunCalls(mid).handInProgress /\ RunCalls(mid).lastShowdown.type = "fold"
               ELSE IF isBettingRoundComplete(mid) \/ NextActionableAfter(mid, i) = 0
               THEN RunCalls(mid).phase # phase
               ELSE /\ RunCalls(mid).handInProgress /\ RunCalls(mid).phase = phase
                    /\ RunCalls(mid).currentTurnId = players[NextActionableAfter(mid, i)].id
                    /\ RunCalls(mid).players[i].folded /\ ~RunCalls(mid).players[i].inHand
         /\ (currentTurnId # id /\ countRemainingInHand(mid) > 1) =>
               /\ RunCalls(mid).handInProgress
               /\ RunCalls(mid).currentTurnId = currentTurnId

\* C20: when the socket of a player who is in the hand disconnects, an
\* actionable player becomes folded and not inHand, and if the turn was
\* theirs it passes to the next actionable player in the ring, or the street
\* or the hand is resolved; an all-in player stays inHand and unfolded and
\* stays among the contenders of the showdown.  A disconnected player who is
\* still in a hand is therefore all-in.
C20_DisconnectDuringHand ==
    /\ (Idle /\ handInProgress) =>
          \A id \in sockets :
              (SeatOf(id) # 0 /\ SeatOf(id) \in InHandSeats(Fresh)) =>
                  GoneFromHand(id, SeatOf(id), Left(id))
    /\ handInProgress =>
          \A i \in 1..Len(players) :
              (players[i].disconnected /\ players[i].inHand) =>
                  players[i].allIn /\ ~players[i].folded

\* A showdown has paid chips to a player who had gone all-in and then
\* disconnected, and who has left the table with the end of the hand.
C20_Witness ==
    /\ ShowdownHeld /\ ~handInProgress
    /\ \E i \in audit.gone :
          /\ audit.scores[i] # NotInMap /\ audit.payouts[i] > 0
          /\ Len(players) < Len(audit.contributions)

\* Every event the server may be handed in the current state: those of the
\* clients, the disconnect of every socket, and the pending timeout.
AllEvents ==
    EventInputs
    \cup { Event("disconnect", id, NoId) : id \in sockets }
    \cup (IF timerArmed THEN { Event("timer", NoId, d) : d \in 1..NumShuffles } ELSE {})

\* The event that has ended in `end` has changed the table.
Mutated(end) ==
    [end EXCEPT !.sent = <<>>, !.logged = 0, !.d = Fresh.d, !.sockets = Fresh.sockets] # Fresh

\* The last state message of the event that has ended in `end` went to every
\* connected socket and shows the state the event has ended in.
SentFinalState(end) ==
    /\ end.sent # <<>>
    /\ end.sent[Len(end.sent)] = [socketId \in end.sockets |-> buildStateFor(end, socketId)]

\* C21: an event that changes the table (an accepted join, setStartingStack,
\* startGame or action, the disconnect of a seated player, the timeout) ends
\* with a state message to every connected socket that shows the state the
\* event leaves; so whenever the next event is taken up, what every connected
\* socket was sent last is the projection of the current state (the log
\* aside, of which the message tells the entries of its own event).  Handlers
\* run to their end one at a time: every step of the model is a whole event.
C21_FinalStateSentToAll ==
    /\ ~crashed =>
          \A socketId \in sockets :
              [delivered[socketId] EXCEPT !.logs = 0] = buildStateFor(Fresh, socketId)
    /\ Idle =>
          \A e \in AllEvents :
              (Handle(Fresh, e).error = NoError /\ ~Handle(Fresh, e).crashed
                  /\ Mutated(Handle(Fresh, e))) =>
                  SentFinalState(Handle(Fresh, e))

\* One event has dealt out the rest of the board, held the showdown and
\* ended the hand, and the sockets have been sent the state after all that.
C21_Witness ==
    /\ handsDealt = 1 /\ ~handInProgress /\ lastShowdown.type = "showdown"
    /\ \E socketId \in sockets :
          /\ delivered[socketId].logs > 4
          /\ delivered[socketId].lastShowdown = lastShowdown
          /\ ~delivered[socketId].handInProgress

(***************************************************************************)
(* What a hand of five cards is, told from its cards without the           *)
(* evaluator: the ranks it holds, how often, and its suits.                *)
(***************************************************************************)
RankSet(cards) == {rankValue(cards[i][1]) : i \in 1..Len(cards)}
Times(cards, rank) == Cardinality({i \in 1..Len(cards) : rankValue(cards[i][1]) = rank})
OneSuit(cards) == Cardinality({cards[i][2] : i \in 1..Len(cards)}) = 1
IsWheel(cards) == RankSet(cards) = {14, 2, 3, 4, 5}
InARow(cards) ==
    /\ Cardinality(RankSet(cards)) = 5
    /\ \/ IsWheel(cards)
       \/ \E low \in 2..10 : RankSet(cards) = low..(low + 4)
\* 0 high card, 1 one pair, 2 two pair, 3 trips, 4 straight, 5 flush, 6 full
\* house, 7 quads, 8 straight flush.
TrueCategory(cards) ==
    IF InARow(cards) /\ OneSuit(cards) THEN 8
    ELSE IF \E r \in RankSet(cards) : Times(cards, r) = 4 THEN 7
    ELSE IF Cardinality(RankSet(cards)) = 2 THEN 6
    ELSE IF OneSuit(cards) THEN 5
    ELSE IF InARow(cards) THEN 4
    ELSE IF \E r \in RankSet(cards) : Times(cards, r) = 3 THEN 3
    ELSE IF Cardinality(RankSet(cards)) = 3 THEN 2
    ELSE IF Cardinality(RankSet(cards)) = 4 THEN 1
    ELSE 0
Evaluated == hands # <<>> /\ verdict # NoVerdict
RowOf(rows, id) == CHOOSE k \in 1..Len(rows) : rows[k].id = id

\* C22: the evaluator scores A-2-3-4-5 as a straight, or a straight flush,
\* with high card 5, so the wheel compares strictly below 2-3-4-5-6 of the
\* same category (and every other straight); and when seat 1 holds A 2 and
\* seat 2 holds 6 2 on the board 3 4 5 7 K, seat 1 is scored a five-high and
\* seat 2 a seven-high straight, and seat 2 is paid the whole pot.
C22_WheelIsFiveHigh ==
    /\ Evaluated =>
          /\ IsWheel(hands[1]) =>
                /\ verdict.left = [category |-> IF OneSuit(hands[1]) THEN 8 ELSE 4,
                                   ranks |-> << 5 >>]
                /\ (InARow(hands[2]) /\ ~IsWheel(hands[2])
                      /\ OneSuit(hands[2]) = OneSuit(hands[1])) => verdict.order < 0
          /\ (InARow(hands[1]) /\ ~IsWheel(hands[1]) /\ IsWheel(hands[2])
                /\ OneSuit(hands[2]) = OneSuit(hands[1])) => verdict.order > 0
    /\ WheelShowdown.lastShowdown.type = "showdown"
    /\ WheelShowdown.lastShowdown.communityCards
          = << <<"3","H">>, <<"4","S">>, <<"5","D">>, <<"7","C">>, <<"K","H">> >>
    /\ WheelShowdown.lastShowdown.hands[RowOf(WheelShowdown.lastShowdown.hands, 1)]
          = [id |-> 1, cards |-> << <<"A","S">>, <<"2","D">> >>,
             score |-> [category |-> 4, ranks |-> << 5 >>]]
    /\ WheelShowdown.lastShowdown.hands[RowOf(WheelShowdown.lastShowdown.hands, 2)]
          = [id |-> 2, cards |-> << <<"6","H">>, <<"2","C">> >>,
             score |-> [category |-> 4, ranks |-> << 7 >>]]
    /\ WheelShowdown.lastShowdown.payouts = << [id |-> 2, amount |-> 2 * BIG_BLIND] >>

\* The wheel, its ace not first, has been compared with 2-3-4-5-6 and has
\* come out lower.
C22_Witness ==
    /\ Evaluated /\ IsWheel(hands[1]) /\ ~OneSuit(hands[1]) /\ hands[1][1][1] = "5"
    /\ RankSet(hands[2]) = 2..6 /\ ~OneSuit(hands[2])
    /\ verdict.left.ranks = << 5 >> /\ verdict.right.ranks = << 6 >> /\ verdict.order < 0

\* The hand of HandInputs with the cards of `cards`.
AsListed(cards) == CHOOSE h \in HandInputs : CardsOf(h) = CardsOf(cards)

\* C23: two hands of five cards whose categories differ are ordered by
\* compareScores as their categories are (high card < one pair < two pair <
\* trips < straight < flush < full house < quads < straight flush), whatever
\* their ranks, and the score of a hand is the same in every order of its
\* cards.
C23_CategoryDecides ==
    Evaluated =>
        /\ verdict.left.category = TrueCategory(hands[1])
        /\ verdict.right.category = TrueCategory(hands[2])
        /\ TrueCategory(hands[1]) < TrueCategory(hands[2]) => verdict.order < 0
        /\ TrueCategory(hands[1]) > TrueCategory(hands[2]) => verdict.order > 0
        /\ verdict.left = evaluateFiveCardHand(AsListed(hands[1]))
        /\ verdict.order
              = compareScores(evaluateFiveCardHand(AsListed(hands[1])),
                              evaluateFiveCardHand(AsListed(hands[2])))

\* Two deuces with 5 4 3, the pair dealt last, have beaten ace high.
C23_Witness ==
    /\ Evaluated
    /\ TrueCategory(hands[1]) = 1 /\ RankSet(hands[1]) = 2..5
    /\ hands[1][4][1] = "2" /\ hands[1][5][1] = "2"
    /\ TrueCategory(hands[2]) = 0 /\ 14 \in RankSet(hands[2])
    /\ verdict.order > 0

\* One event has taken the hand from one betting street to the next.
StreetStep == handInProgress /\ handInProgress' /\ phase' # phase
StreetAfter(street) ==
    CASE street = "preflop" -> "flop" [] street = "flop" -> "turn" [] OTHER -> "river"
\* The j-th card from the top of the deck.
FromTop(j) == deck[Len(deck) + 1 - j]
\* The seat of the first actionable player after seat i in the ring of the
\* seats of st, seat i last (0 for none), counted without getRingOrder.
FirstActionableAfter(st, i) ==
    IF ActionableSeats(st) = {} THEN 0
    ELSE CHOOSE j \in ActionableSeats(st) :
            \A k \in ActionableSeats(st) :
                (j - i - 1) % Len(st.players) <= (k - i - 1) % Len(st.players)
FirstActionableAfterDealer(st) == FirstActionableAfter(st, findPlayer(st, st.dealerId))
\* What the claim says of the step, of the seats in `seats`.
StreetOpened(seats) ==
    /\ phase' = StreetAfter(phase)
    /\ burnCards' = Append(burnCards, FromTop(1))
    /\ communityCards'
          = communityCards \o (IF phase = "preflop" THEN << FromTop(2), FromTop(3), FromTop(4) >>
                               ELSE << FromTop(2) >>)
    /\ deck' = SubSeq(deck, 1, Len(deck) - (IF phase = "preflop" THEN 4 ELSE 2))
    /\ \A i \in seats :
          /\ players'[i].betThisRound = 0
          /\ players'[i].acted = ~isPlayerActionable(players'[i])
    /\ currentBet' = 0 /\ lastRaiseSize' = BIG_BLIND
    /\ FirstActionableAfterDealer(T') # 0
    /\ currentTurnId' = players'[FirstActionableAfterDealer(T')].id

\* C24: a step from preflop to the flop, from the flop to the turn or from
\* the turn to the river burns one card and then deals 3, 1 or 1 community
\* cards, and leaves betThisRound 0 for every seated player (folded players
\* included), currentBet 0, lastRaiseSize the big blind, acted true exactly
\* for the players who are not actionable, and the turn with the first
\* actionable player after the dealer.
C24_StreetOpensClean == [][StreetStep => StreetOpened(1..Len(players'))]_vars

\* A hand is on in st with nobody left to act and two contenders or more.
NobodyToAct(st) ==
    /\ st.handInProgress /\ ~st.crashed /\ st.error = NoError
    /\ ActionableSeats(st) = {} /\ Cardinality(InHandSeats(st)) >= 2
\* The state in which the event that has left `mid` calls resolveShowdown.
AtShowdownCall(mid) ==
    IF mid.call = "advanceAfterAction"
    THEN IF goToNextStreet(advanceAfterAction(mid)).call = "fastForwardBoardAndShowdown"
         THEN fastForwardBoardAndShowdown(goToNextStreet(advanceAfterAction(mid)))
         ELSE goToNextStreet(advanceAfterAction(mid))
    ELSE IF mid.call = "fastForwardBoardAndShowdown" THEN fastForwardBoardAndShowdown(mid)
    ELSE mid
\* How the cards come off the deck from a street on: a burn (b) before the
\* community cards (c) of every street still to deal.
RunOut(street) ==
    CASE street = "preflop" -> << "b", "c", "c", "c", "b", "c", "b", "c" >>
      [] street = "flop" -> << "b", "c", "b", "c" >>
      [] street = "turn" -> << "b", "c" >>
      [] OTHER -> << >>
\* The cards of `kind` among those that come off the deck of st that way.
OffTheTop(st, kind) ==
    LET at == FilterSeq(Indexes(RunOut(st.phase)),
                        {j \in 1..Len(RunOut(st.phase)) : RunOut(st.phase)[j] = kind})
    IN  TupleOf([k \in 1..Len(at) |-> st.deck[Len(st.deck) + 1 - at[k]]])
\* What the claim says of the event that has left `mid`.
BoardRunsOut(mid) ==
    NobodyToAct(mid) =>
        /\ AtShowdownCall(mid).call = "resolveShowdown"
        /\ Len(AtShowdownCall(mid).communityCards) = 5
        /\ AtShowdownCall(mid).communityCards = mid.communityCards \o OffTheTop(mid, "c")
        /\ AtShowdownCall(mid).burnCards = mid.burnCards \o OffTheTop(mid, "b")
        /\ ~RunCalls(mid).handInProgress
        /\ RunCalls(mid).lastShowdown.type = "showdown"
        /\ RunCalls(mid).lastShowdown.communityCards = AtShowdownCall(mid).communityCards
        /\ RunCalls(mid).audit # audit

\* C25: when an action, a disconnect or the blinds of a new hand leave a
\* hand in progress with no actionable player and two contenders or more,
\* the same event deals the board out to five community cards, with one burn
\* before the flop, the turn and the river, and resolves the showdown; so no
\* state between two events has a hand in progress without an actionable
\* player.
C25_BoardRunsOutAtOnce ==
    /\ (handInProgress /\ ~crashed) => ActionableSeats(Fresh) # {}
    /\ Betting =>
          \A action \in ActionInputs(Fresh, currentTurnId) : BoardRunsOut(Sent(action))
    /\ (Idle /\ handInProgress) =>
          \A id \in sockets : BoardRunsOut(Left(id))
    /\ (Idle /\ timerArmed) =>
          \A d \in 1..NumShuffles :
              BoardRunsOut(startNextHand(timerFires([Fresh EXCEPT !.d = d])))

\* The blinds of a hand between two players have taken all that both had,
\* and the same event has dealt five community cards and paid the showdown.
C25_Witness ==
    /\ ~handInProgress /\ handsDealt = 1 /\ audit # NoAudit
    /\ audit.contributions = << SMALL_BLIND, SMALL_BLIND >>
    /\ Len(lastShowdown.communityCards) = 5 /\ lastShowdown.type = "showdown"

\* The seat left of seat i among the players dealt into the hand of st.
LeftOf(st, i) ==
    CHOOSE j \in {k \in 1..Len(st.players) : st.players[k].inHand} :
        \A k \in {k \in 1..Len(st.players) : st.players[k].inHand} :
            (j - i - 1) % Len(st.players) <= (k - i - 1) % Len(st.players)
\* One event has dealt a hand and left it with its first betting round.
HandOpens == ~handInProgress /\ handInProgress'
\* After an accepted action that leaves the round open, the turn is with the
\* first actionable player after the actor.
TurnPassesOn ==
    Betting =>
        \A action \in ActionInputs(Fresh, currentTurnId) :
            (/\ Accepted(Sent(action))
             /\ RunCalls(Sent(action)).handInProgress
             /\ RunCalls(Sent(action)).phase = phase) =>
                /\ FirstActionableAfter(RunCalls(Sent(action)), OnTurn) # 0
                /\ RunCalls(Sent(action)).currentTurnId
                      = players[FirstActionableAfter(RunCalls(Sent(action)), OnTurn)].id
\* A later street opens with the first actionable player after the dealer.
StreetTurn ==
    StreetStep => currentTurnId' = players'[FirstActionableAfterDealer(T')].id

\* C26 as claimed: the turn follows the ring: after an accepted action that
\* leaves the round open it is with the first actionable player after the
\* actor; a hand opens with the player left of the big blind, who between
\* two players is the dealer and small blind; a later street opens with the
\* first actionable player after the dealer.
C26_TurnLeftOfBigBlind ==
    /\ []TurnPassesOn
    /\ [][/\ StreetTurn
          /\ HandOpens =>
                /\ currentTurnId' = players'[LeftOf(T', findPlayer(T', bigBlindId'))].id
                /\ Cardinality(InHandSeats(T')) = 2 =>
                      currentTurnId' = dealerId' /\ dealerId' = smallBlindId']_vars

\* C26, amended: a hand opens with the first actionable player after the big
\* blind, the big blind last; this is the player left of the big blind
\* unless a blind has taken all that player had (between two players: the
\* dealer, who is the small blind, unless the small blind has put the dealer
\* all-in, and then the big blind).
C26_TurnFollowsRing ==
    /\ []TurnPassesOn
    /\ [][/\ StreetTurn
          /\ HandOpens =>
                /\ currentTurnId'
                      = players'[FirstActionableAfter(T', findPlayer(T', bigBlindId'))].id
                /\ isPlayerActionable(players'[LeftOf(T', findPlayer(T', bigBlindId'))]) =>
                      currentTurnId' = players'[LeftOf(T', findPlayer(T', bigBlindId'))].id
                /\ Cardinality(InHandSeats(T')) = 2 =>
                      /\ dealerId' = smallBlindId'
                      /\ currentTurnId' = (IF players'[findPlayer(T', dealerId')].allIn
                                           THEN bigBlindId' ELSE dealerId')]_vars

\* A hand between two players has opened with the dealer, who is the small
\* blind, all-in for the blind, and the turn with the big blind.
C26_Witness ==
    /\ handInProgress /\ phase = "preflop" /\ communityCards = <<>> /\ Len(players) = 2
    /\ dealerId = smallBlindId /\ players[findPlayer(Fresh, dealerId)].allIn
    /\ currentTurnId = bigBlindId /\ pot = SMALL_BLIND + BIG_BLIND


(***************************************************************************)
(* C27.  The dealer button.                                                *)
(***************************************************************************)
\* One event has dealt a hand that is still open after it.
HandDealt == handsDealt' = handsDealt + 1 /\ handInProgress'
\* C27: on the first hand the dealer is the first seat; on every later hand
\* whose previous dealer is still seated, busted or not, the dealer is the
\* next eligible player in ring order after the previous dealer.
C27_DealerMovesOn ==
    [][HandDealt =>
          IF handNumber' = 1 THEN dealerId' = players'[1].id
          ELSE findPlayer(T', dealerId) # 0 =>
                  dealerId' = players'[LeftOf(T', findPlayer(T', dealerId))].id]_vars


(***************************************************************************)
(* C28.  The hole cards.                                                   *)
(***************************************************************************)
\* The seats dealt into the hand of the next state.
DealtIn == {i \in 1..Len(players') : players'[i].inHand}
\* The place of seat i among the seats dealt in, counted in ring order from
\* the seat after the dealer of the next state (the dealer last).
TurnToBeDealt(i) ==
    Cardinality({k \in DealtIn :
        (k - findPlayer(T', dealerId') - 1) % Len(players')
            <= (i - findPlayer(T', dealerId') - 1) % Len(players')})
\* The j-th card drawn from a full deck.
Drawn(cards, j) == cards[Len(cards) + 1 - j]
\* The decks the hand of the next state may have been dealt from.
DealtFrom == {d \in 1..NumDecks : deck' = SubSeq(Shuffled[d], 1, Len(deck'))}
\* C28: a hand is dealt by drawing two cards for each player in the hand,
\* and none for the others, off the top of the deck, one card a player in
\* two rounds that both start with the player seated after the dealer.
C28_HoleCardsFromLeftOfDealer ==
    [][HandDealt =>
          /\ DealtFrom # {}
          /\ Len(deck') = FULL_DECK_SIZE - 2 * Cardinality(DealtIn)
          /\ \A i \in 1..Len(players') \ DealtIn : players'[i].holeCards = <<>>
          /\ \A d \in DealtFrom : \A i \in DealtIn :
                players'[i].holeCards
                    = << Drawn(Shuffled[d], TurnToBeDealt(i)),
                         Drawn(Shuffled[d], Cardinality(DealtIn) + TurnToBeDealt(i)) >>]_vars


(***************************************************************************)
(* C30.  The timer of the next hand.                                       *)
(***************************************************************************)
\* C30: at most one timeout of the next hand is pending, and none is pending
\* while a hand is in progress, whether the admin's startGame or a timeout
\* has dealt it: so no timeout fires, and none deals a hand, during a hand.
C30_OneTimerNoneInHand ==
    /\ timers <= 1
    /\ timers = (IF timerArmed THEN 1 ELSE 0)
    /\ handInProgress => timers = 0
\* A hand dealt by a timeout is in progress: the field still holds the
\* handle of the timeout that fired.
C30_Witness ==
    /\ handInProgress /\ handsDealt = 1 /\ handNumber > 1
    /\ nextHandTimer /\ ~timerArmed /\ timers = 0


(***************************************************************************)
(* C29.  The seat list during a hand.                                      *)
(***************************************************************************)
\* The ids of the seated players, in seat order.
SeatList(seated) == [i \in 1..Len(seated) |-> seated[i].id]
\* C29: an event that finds a hand in progress and leaves it in progress
\* leaves the seat list as it is, so players are removed only by an event
\* that ends a hand, starts one or finds none in progress; a seat is added
\* only when the game is not started, and a join is rejected when it is.
C29_SeatListKeptDuringHand ==
    /\ [](handInProgress => gameStarted)
    /\ [](gameStarted =>
             \A id \in sockets, payload \in NameInputs :
                 /\ ~Accepted(Handle(Fresh, Event("join", id, payload)))
                 /\ Handle(Fresh, Event("join", id, payload)).players = players)
    /\ [][/\ (handInProgress /\ handInProgress') => SeatList(players') = SeatList(players)
          /\ SeatList(players') # SeatList(players) =>
                \/ Len(players') = Len(players) + 1 /\ ~gameStarted
                      /\ SeatList(SubSeq(players', 1, Len(players))) = SeatList(players)
                \/ /\ SeatList(players')
                         = SeatList(SelectSeq(players, LAMBDA p : p.id \in sockets'))
                   /\ \A i \in 1..Len(players') : ~players'[i].disconnected]_vars
\* A hand is in progress with a disconnected player still seated, two
\* events after that player has left.
C29_Witness ==
    /\ handInProgress /\ Len(players) = NumSockets /\ Len(communityCards) > 0
    /\ \E i \in 1..Len(players) : players[i].disconnected /\ players[i].id \notin sockets


(***************************************************************************)
(* C31.  After a hand.                                                     *)
(***************************************************************************)
\* One event has ended a hand (one in progress, or one it has dealt itself).
HandEnds == ~handInProgress' /\ (handInProgress \/ handsDealt' = handsDealt + 1)
\* Hand number n is over and the next one may still be dealt.
WaitsAfter(n) ==
    Idle /\ gameStarted /\ ~handInProgress /\ handNumber = n /\ handsDealt < MaxHands
\* The highest hand number of the exploration.
LastHandNumber == 2 + MaxHands
\* C31: a hand that ends with two eligible players or more leaves the game
\* started and one timeout pending, and any other hand leaves the lobby with
\* no timeout; and when a game waits after hand n, hand n + 1 is dealt in the
\* end unless the game has stopped before (or an event has been rejected,
\* where the exploration stops).
C31_NextHandOrLobby ==
    /\ [][HandEnds =>
             IF Len(Eligible(T')) >= 2
             THEN gameStarted' /\ timers' = 1 /\ timerArmed' /\ phase' # "lobby"
             ELSE ~gameStarted' /\ phase' = "lobby" /\ timers' = 0]_vars
    /\ \A n \in 0..LastHandNumber :
          WaitsAfter(n) ~> (handNumber = n + 1 \/ ~gameStarted \/ ~Idle)
\* A hand dealt by the timeout has ended by a showdown with two players
\* left to go on, and the timeout of the next hand is pending.
C31_Witness ==
    /\ gameStarted /\ ~handInProgress /\ timers = 1 /\ handsDealt = 1
    /\ Len(Eligible(T)) = 2 /\ lastShowdown.type = "showdown" /\ audit # NoAudit


(***************************************************************************)
(* C32.  The admin.                                                        *)
(***************************************************************************)
\* The seats of the admins and those of the connected players.
Admins(seated) == {i \in 1..Len(seated) : seated[i].isAdmin}
Connected(seated) == {i \in 1..Len(seated) : ~seated[i].disconnected}
\* The id of the admin among the seated (NoId for none).
AdminId(seated) ==
    IF Admins(seated) = {} THEN NoId ELSE seated[CHOOSE i \in Admins(seated) : TRUE].id
\* C32: at most one seated player is admin and the admin is connected; when
\* a connected player is seated, one is admin; and when the admin's socket
\* has left, the admin after the event is the first connected player in seat
\* order.
C32_OneConnectedAdmin ==
    /\ [](/\ Cardinality(Admins(players)) <= 1
          /\ Admins(players) \subseteq Connected(players)
          /\ Connected(players) # {} => Cardinality(Admins(players)) = 1)
    /\ [][(/\ AdminId(players) # NoId
           /\ AdminId(players) \notin sockets'
           /\ Connected(players') # {}) =>
              /\ Admins(players') # {}
              /\ \A i \in Connected(players') : \A a \in Admins(players') : a <= i]_vars
\* The admin has left a hand in progress and is still seated in the first
\* seat: the player in the second seat is the admin.
C32_Witness ==
    /\ handInProgress /\ Len(players) = 3
    /\ players[1].disconnected /\ ~players[1].isAdmin /\ players[2].isAdmin


(***************************************************************************)
(* C33.  The player on turn.                                               *)
(***************************************************************************)
\* C33: while a hand is in progress the turn is with a seated player who is
\* in the hand, has not folded, is not all-in and is connected; when no hand
\* is in progress nobody is on turn.
C33_TurnWithActionablePlayer ==
    IF handInProgress
    THEN /\ OnTurn # 0
         /\ OnTurn \in ActionableSeats(T)
         /\ ~players[OnTurn].disconnected
         /\ currentTurnId \in sockets
    ELSE currentTurnId = NoId

\* The player on turn is to answer an all-in, after the third player has
\* left the hand and is still seated.
C33_Witness ==
    /\ handInProgress /\ Len(players) = 3 /\ OnTurn \in ActionableSeats(T)
    /\ \E i \in 1..Len(players) : players[i].disconnected /\ players[i].folded
    /\ \E j \in 1..Len(players) : players[j].allIn /\ ~players[j].folded


(***************************************************************************)
(* C34.  The player on turn owes an action.                                *)
(***************************************************************************)
\* The player in seat i of st has acted and has matched the current bet.
Settled(st, i) == st.players[i].acted /\ st.players[i].betThisRound >= st.currentBet
\* C34: while a hand is in progress the player on turn has not acted or has
\* less than the current bet in front of them, and no accepted action hands
\* the turn to a player who has acted and matched the current bet.
C34_TurnOwesAction ==
    /\ (handInProgress /\ OnTurn # 0) => ~Settled(T, OnTurn)
    /\ Betting =>
          \A action \in ActionInputs(Fresh, currentTurnId) :
              (/\ Accepted(Sent(action))
               /\ RunCalls(Sent(action)).handInProgress) =>
                  ~Settled(RunCalls(Sent(action)),
                           findPlayer(RunCalls(Sent(action)),
                                      RunCalls(Sent(action)).currentTurnId))
\* The turn is back with a player who has acted on this street and now faces
\* a raise.
C34_Witness ==
    /\ handInProgress /\ OnTurn # 0 /\ players[OnTurn].acted
    /\ players[OnTurn].betThisRound < currentBet /\ players[OnTurn].betThisRound > 0
    /\ phase = "flop"


(***************************************************************************)
(* C35.  The actions offered and the actions accepted.                     *)
(***************************************************************************)
\* What the player on turn is offered.
Offered == availableActions(T, currentTurnId)
\* The action of that type, with no amount.
Plain(type) == [type |-> type, amount |-> Num(0)]
\* The raise targets tried for the player on turn: every integer up to one
\* more than the player can put in.
RaiseScan == { Num(n) : n \in 0..(MaxTotal(OnTurn) + 1) }
\* C35: of the player on turn, check is accepted exactly when canCheck is
\* offered and call exactly when canCall is, and a call moves callAmount
\* chips from the player to the pot; a raise to some amount is accepted
\* exactly when canRaise is offered, and then a raise to every integer from
\* minRaiseTo to maxRaiseTo is.
C35_OfferedIsAccepted ==
    Betting =>
        /\ Offered.canCheck <=> Accepted(Sent(Plain("check")))
        /\ Offered.canCall <=> Accepted(Sent(Plain("call")))
        /\ Offered.canCall =>
              /\ Sent(Plain("call")).players[OnTurn].chips
                    = players[OnTurn].chips - Offered.callAmount
              /\ Sent(Plain("call")).players[OnTurn].betThisRound
                    = players[OnTurn].betThisRound + Offered.callAmount
              /\ Sent(Plain("call")).pot = pot + Offered.callAmount
              /\ Offered.callAmount > 0
        /\ Offered.canRaise <=> \E a \in RaiseScan : Accepted(Raised(a))
        /\ Offered.canRaise =>
              /\ Offered.minRaiseTo <= Offered.maxRaiseTo
              /\ \A n \in Offered.minRaiseTo..Offered.maxRaiseTo : Accepted(Raised(Num(n)))
\* The player on turn faces the big blind and is offered to call it or to
\* raise to any of more than twenty amounts.
C35_Witness ==
    /\ Betting /\ Offered.canRaise /\ Offered.canCall
    /\ Offered.minRaiseTo + BIG_BLIND < Offered.maxRaiseTo
    /\ Offered.callAmount = BIG_BLIND


(***************************************************************************)
(* C36.  Empty stacks.                                                     *)
(***************************************************************************)
\* C36: while a hand is in progress a player who is in the hand with no
\* chips is all-in, so every actionable player holds chips, and so does the
\* player on turn.
C36_EmptyStackIsAllIn ==
    handInProgress =>
        /\ \A i \in InHandSeats(T) : players[i].chips = 0 => players[i].allIn
        /\ \A i \in ActionableSeats(T) : players[i].chips > 0
        /\ OnTurn # 0 => players[OnTurn].chips > 0
\* A blind has taken the last chips of a player, who is all-in while another
\* player is on turn.
C36_Witness ==
    /\ handInProgress /\ phase = "preflop" /\ OnTurn # 0
    /\ \E i \in InHandSeats(T) :
          /\ players[i].chips = 0 /\ players[i].allIn
          /\ players[i].totalContribution <= BIG_BLIND
          /\ players[i].id \in {smallBlindId, bigBlindId}


(***************************************************************************)
(* C37.  Between hands.                                                    *)
(***************************************************************************)
\* C37: a started game is between two hands exactly when the timeout of the
\* next hand is pending.
C37_WaitingIffTimer ==
    (gameStarted /\ ~handInProgress) <=> timers > 0
\* A player has left between two hands and two are left to go on: the game
\* is still started and the timeout still pending.
C37_Witness ==
    /\ gameStarted /\ ~handInProgress /\ timers = 1 /\ timerArmed
    /\ Cardinality(sockets) < NumSockets /\ Len(players) = 2 /\ handNumber = 1
    /\ \A i \in 1..Len(players) : players[i].chips > BIG_BLIND


(***************************************************************************)
(* C38.  The lifecycle flags.                                              *)
(***************************************************************************)
\* The phases of a betting round.
Streets == {"preflop", "flop", "turn", "river"}
\* The seats that hold the two hole cards of the hand.
DealtSeats == {i \in 1..Len(players) : Len(players[i].holeCards) = 2}
\* C38: the phase is lobby exactly when the game is not started; a hand is in
\* progress exactly in the phases preflop, flop, turn and river; and a hand
\* in progress belongs to a started game and was dealt to two players or
\* more.
C38_LifecycleFlagsAgree ==
    /\ phase = "lobby" <=> ~gameStarted
    /\ handInProgress <=> phase \in Streets
    /\ phase \in Streets \cup {"lobby", "showdown"}
    /\ handInProgress => gameStarted /\ Cardinality(DealtSeats) >= 2
\* A game waits for its next hand in phase showdown.
C38_Witness ==
    /\ gameStarted /\ ~handInProgress /\ phase = "showdown" /\ handsDealt = 1
    /\ Cardinality(DealtSeats) = 0


(***************************************************************************)
(* C39: the card counts of a hand.                                         *)
(***************************************************************************)
\* The community cards and the burned cards a street has on the table.
BoardSize(street) ==
    CASE street = "preflop" -> 0 [] street = "flop" -> 3
      [] street = "turn" -> 4 [] street = "river" -> 5 [] OTHER -> 0 - 1
BurnCount(street) ==
    CASE street = "preflop" -> 0 [] street = "flop" -> 1
      [] street = "turn" -> 2 [] street = "river" -> 3 [] OTHER -> 0 - 1

\* C39: while a hand is in progress communityCards has 0, 3, 4, 5 cards and
\* burnCards 0, 1, 2, 3 cards in preflop, flop, turn, river; the deck and
\* seenCards make 52 cards together, and seenCards has two cards for every
\* player dealt in, the burned cards and the community cards.  A showdown
\* that evaluated hands did so on five community cards: every contender's
\* seven cards got a score.
C39_CardCountsMatchPhase ==
    /\ handInProgress =>
          /\ Len(communityCards) = BoardSize(phase)
          /\ Len(burnCards) = BurnCount(phase)
          /\ Len(deck) + Cardinality(seenCards) = FULL_DECK_SIZE
          /\ Cardinality(seenCards)
                = 2 * Cardinality(DealtSeats) + Len(burnCards) + Len(communityCards)
    /\ lastShowdown # NoShowdown /\ lastShowdown.type = "showdown" =>
          /\ Len(lastShowdown.communityCards) = 5
          /\ \A k \in 1..Len(lastShowdown.hands) :
                /\ Len(lastShowdown.hands[k].cards) = 2
                /\ lastShowdown.hands[k].score # NoScore

\* The second hand is on the turn with three players dealt in: six hole
\* cards, two burned cards and four community cards have left the deck.
C39_Witness ==
    /\ handInProgress /\ phase = "turn" /\ handsDealt = 2
    /\ Cardinality(DealtSeats) = 3
    /\ Len(communityCards) = 4 /\ Len(burnCards) = 2
    /\ Cardinality(seenCards) = 12 /\ Len(deck) = 40


(***************************************************************************)
(* C40.  Hands end.                                                        *)
(***************************************************************************)
\* The streets in the order they are played, and the phases after them.
StreetRank(p) ==
    CASE p = "preflop" -> 1 [] p = "flop" -> 2 [] p = "turn" -> 3 [] p = "river" -> 4
      [] p = "showdown" -> 5 [] OTHER -> 6
\* What every step of the player on turn moves: the turn, the street or the
\* end of the hand.
TurnState == << currentTurnId, phase, handInProgress >>
\* An event of the hand in progress was accepted: an action of the player on
\* turn or a disconnect (nothing else is, with a hand in progress).
HandStep == Idle /\ handInProgress /\ Idle' /\ T' # T
\* What an action or a disconnect changes of the player who acts or leaves.
Standing(p) == << p.acted, p.folded, p.disconnected, p.totalContribution >>
\* The player on turn has acted or left: the hand has ended, or it goes on
\* with that player's seat changed.
TurnStep ==
    /\ HandStep /\ OnTurn # 0
    /\ handInProgress' => Standing(players'[OnTurn]) # Standing(players[OnTurn])

\* C40: every hand in progress ends (or an event is rejected, where the
\* exploration stops) when no turn stays open for ever.  An accepted raise
\* of the player on turn leaves currentBet higher than it was and no higher
\* than the raiser's bet of the round plus the raiser's chips; the phase of
\* a hand in progress never goes back, and a hand ends in showdown or, when
\* the game stops, in lobby; and every step of the player on turn moves the
\* turn or the street or ends the hand.
C40_HandsFinish ==
    /\ [](Betting =>
            \A a \in RaiseScan :
               Accepted(Raised(a)) =>
                  /\ Raised(a).currentBet > currentBet
                  /\ Raised(a).currentBet <= MaxTotal(OnTurn)
                  /\ Raised(a).call = "advanceAfterAction")
    /\ [][handInProgress =>
             IF handInProgress'
             THEN StreetRank(phase') >= StreetRank(phase) /\ handNumber' = handNumber
             ELSE phase' \in {"showdown", "lobby"}]_vars
    /\ [][TurnStep => TurnState' # TurnState]_vars
    /\ handInProgress ~> (~handInProgress \/ ~Idle)

\* A hand has ended in a showdown of two hands or more for a pot of more
\* than two big blinds.
C40_Witness ==
    /\ ~handInProgress /\ Idle /\ gameStarted /\ handsDealt = 1
    /\ lastShowdown.type = "showdown" /\ Len(lastShowdown.hands) >= 2
    /\ pot > 2 * BIG_BLIND
====
